---------------------------- MODULE Spec2Model ----------------------------
(***************************************************************************)
(* A model of the swiftblade template engine (packalyst/swiftblade).       *)
(*                                                                         *)
(* Text is modelled at two granularities.  File and component names are    *)
(* sequences of single characters, so that os.path.normpath, the '..'      *)
(* checks and os.path.join are computed character by character.  Template  *)
(* text is a sequence of tokens: a token is either one character of        *)
(* literal text or one lexical unit that the engine's regular expressions  *)
(* recognise ({{ e }}, {!! e !!}, @foreach(v in e), @endif, ...).          *)
(***************************************************************************)
EXTENDS Integers, Sequences, FiniteSets, TLC

VARIABLES
    \* ---- BladeEngine._resolve_template_path, called on one name ----
    template_name,      \* the name passed in (sequence of characters)
    symlinks,           \* the file system's symbolic links under the root
    resolved,           \* outcome of the call: [st, err, path]
    io_calls,           \* cache.get / os.path.exists / open calls made by render
    \* ---- ComponentBase._resolve_component_path, called on one name ----
    component_name,     \* the tag name of an x-component
    component_file,     \* outcome of the call: [st, err, path]
    \* ---- one BladeEngine instance, rendering templates ----
    strict_mode,        \* BladeEngine.strict_mode
    stacks,             \* StackHandler.stacks
    recursion_depth,    \* TemplateParser._recursion_depth
    globals,            \* BladeEngine._globals
    last,               \* what the last render call was given and what it did
    \* ---- one MemoryCache, the files it caches and the clock ----
    cache,              \* MemoryCache.cache, in insertion order
    cache_config,       \* [max_size, ttl, track_mtime]
    now,                \* time.time()
    file_mtime,         \* os.path.getmtime of each template file
    mtime_memo,         \* what lru_cache holds for _get_file_mtime_cached
    op,                 \* the last cache operation and what it found
    \* ---- one TemplateCompiler and the directory of one DiskCache ----
    compiled_cache,     \* TemplateCompiler.compiled_cache
    cache_dir           \* the *.json files of DiskCache.cache_dir

vars == <<template_name, symlinks, resolved, io_calls,
          component_name, component_file,
          strict_mode, stacks, recursion_depth, globals, last,
          cache, cache_config, now, file_mtime, mtime_memo, op,
          compiled_cache, cache_dir>>

pathVars   == <<template_name, symlinks, resolved, io_calls>>
compVars   == <<component_name, component_file>>
engineVars == <<strict_mode, stacks, recursion_depth, globals, last>>
cacheVars  == <<cache, cache_config, now, file_mtime, mtime_memo, op>>
storeVars  == <<compiled_cache, cache_dir>>

(***************************************************************************)
(* Bounds of the model.                                                    *)
(***************************************************************************)
MaxNameLen == 4         \* longest template / component name, in characters
MaxStackItems == 2      \* renders stop once the stack store holds this many bodies
PyRecursionLimit == 5   \* nested process_template calls before RecursionError
MaxCacheSize == 2       \* largest MemoryCache.max_size
MaxTtl == 1             \* largest MemoryCache.ttl, in clock ticks
MaxTime == 2            \* the clock stops here

\* BladeEngine configuration of the modelled instance
max_loop_iterations == 2
max_recursion_depth == 2

(***************************************************************************)
(* Generic helpers on sequences of characters.                             *)
(***************************************************************************)
SeqsUpTo(S, n) == UNION { [1..k -> S] : k \in 1..n }

StartsWith(s, p) ==
    /\ Len(s) >= Len(p)
    /\ SubSeq(s, 1, Len(p)) = p

EndsWith(s, p) ==
    /\ Len(s) >= Len(p)
    /\ SubSeq(s, Len(s) - Len(p) + 1, Len(s)) = p

Contains(s, p) ==
    \E i \in 1..(Len(s) - Len(p) + 1) : SubSeq(s, i, i + Len(p) - 1) = p

RECURSIVE LStrip(_, _)
LStrip(s, c) == IF s # <<>> /\ Head(s) = c THEN LStrip(Tail(s), c) ELSE s

\* str.split(sep) for a one-character separator
RECURSIVE SplitAcc(_, _, _)
SplitAcc(s, sep, cur) ==
    IF s = <<>> THEN <<cur>>
    ELSE IF Head(s) = sep THEN <<cur>> \o SplitAcc(Tail(s), sep, <<>>)
    ELSE SplitAcc(Tail(s), sep, Append(cur, Head(s)))

Split(s, sep) == SplitAcc(s, sep, <<>>)

\* sep.join(parts)
RECURSIVE Join(_, _)
Join(parts, sep) ==
    IF parts = <<>> THEN <<>>
    ELSE IF Len(parts) = 1 THEN parts[1]
    ELSE parts[1] \o <<sep>> \o Join(Tail(parts), sep)

\* str.replace(old, new) for one-character old and new
ReplaceChar(s, old, new) ==
    [i \in 1..Len(s) |-> IF s[i] = old THEN new ELSE s[i]]

DOT    == <<".">>
DOTDOT == <<".", ".">>

(***************************************************************************)
(* os.path (POSIX).                                                        *)
(***************************************************************************)
IsAbs(s) == StartsWith(s, <<"/">>)

RECURSIVE NormComps(_, _, _)
NormComps(comps, acc, initial_slashes) ==
    IF comps = <<>> THEN acc
    ELSE LET comp == Head(comps) IN
         IF comp = <<>> \/ comp = DOT
         THEN NormComps(Tail(comps), acc, initial_slashes)
         ELSE IF \/ comp # DOTDOT
                 \/ (initial_slashes = 0 /\ acc = <<>>)
                 \/ (acc # <<>> /\ acc[Len(acc)] = DOTDOT)
         THEN NormComps(Tail(comps), Append(acc, comp), initial_slashes)
         ELSE IF acc # <<>>
         THEN NormComps(Tail(comps), SubSeq(acc, 1, Len(acc) - 1), initial_slashes)
         ELSE NormComps(Tail(comps), acc, initial_slashes)

NormPath(s) ==
    IF s = <<>> THEN DOT
    ELSE LET initial_slashes ==
                 IF ~StartsWith(s, <<"/">>) THEN 0
                 ELSE IF StartsWith(s, <<"/", "/">>) /\ ~StartsWith(s, <<"/", "/", "/">>)
                      THEN 2 ELSE 1
             comps == NormComps(Split(s, "/"), <<>>, initial_slashes)
             path  == [i \in 1..initial_slashes |-> "/"] \o Join(comps, "/")
         IN  IF path = <<>> THEN DOT ELSE path

\* os.path.join(a, b): an absolute b discards a
PathJoin(a, b) ==
    IF StartsWith(b, <<"/">>) THEN b
    ELSE IF a = <<>> \/ EndsWith(a, <<"/">>) THEN a \o b
    ELSE a \o <<"/">> \o b

(***************************************************************************)
(* Constants of the engine.                                                *)
(***************************************************************************)
VALID_TEMPLATE_EXTENSIONS ==
    { <<".", "h", "t", "m", "l">>, <<".", "b", "l", "a", "d", "e">>,
      <<".", "t", "p", "l">>, <<".", "t", "x", "t">> }

DEFAULT_FILE_EXTENSION == <<".", "h", "t", "m", "l">>

COMPONENT_SUBDIR == <<"c", "o", "m", "p", "o", "n", "e", "n", "t", "s">>

\* BladeEngine.template_dir, already canonical: the directory /r
TemplateDir == <<"/", "r">>

HasValidExtension(s) == \E ext \in VALID_TEMPLATE_EXTENSIONS : EndsWith(s, ext)

(***************************************************************************)
(* Canonical paths are sequences of segments below "/".                    *)
(***************************************************************************)
Segments(s) == SelectSeq(Split(s, "/"), LAMBDA c : c # <<>>)

IsPrefix(p, q) == Len(p) <= Len(q) /\ SubSeq(q, 1, Len(p)) = p

\* q is p or lies below p
Within(p, q) == IsPrefix(p, q)

\* q lies strictly below p
Descendant(p, q) == IsPrefix(p, q) /\ Len(q) > Len(p)

\* The symbolic links the file system may hold below the template root:
\* none, a link r/a that leaves the root, a link r/a that stays inside.
SymlinkConfigs ==
    { <<>>,
      << [from |-> << <<"r">>, <<"a">> >>, to |-> << <<"e">> >>] >>,
      << [from |-> << <<"r">>, <<"a">> >>, to |-> << <<"r">>, <<"b">> >>] >> }

FollowLink(links, p) ==
    IF \E i \in 1..Len(links) : links[i].from = p
    THEN links[CHOOSE i \in 1..Len(links) : links[i].from = p].to
    ELSE p

\* pathlib.Path.resolve(): walk the segments, following links, dropping '.'
\* and stepping up on '..'
RECURSIVE ResolveFrom(_, _, _)
ResolveFrom(links, cur, segs) ==
    IF segs = <<>> THEN cur
    ELSE LET s == Head(segs) IN
         IF s = DOT THEN ResolveFrom(links, cur, Tail(segs))
         ELSE IF s = DOTDOT
         THEN ResolveFrom(links,
                          IF cur = <<>> THEN cur ELSE SubSeq(cur, 1, Len(cur) - 1),
                          Tail(segs))
         ELSE ResolveFrom(links, FollowLink(links, Append(cur, s)), Tail(segs))

PathResolve(links, s) == ResolveFrom(links, <<>>, Segments(s))

(***************************************************************************)
(* BladeEngine._resolve_template_path                                      *)
(***************************************************************************)
Raised(e)   == [st |-> "raised", err |-> e, path |-> <<>>]
Returned(p) == [st |-> "returned", err |-> "", path |-> p]
Pending     == [st |-> "pending", err |-> "", path |-> <<>>]

\* the final check: template_path.relative_to(template_dir)
RelativeToNoCheck(template_dir, template_path) == TRUE

RelativeTo(template_dir, template_path) == Within(template_dir, template_path)

ResolveTemplatePath(links, name) ==
    IF IsAbs(name) \/ StartsWith(name, <<"/">>) \/ StartsWith(name, <<"\\">>)
    THEN Raised("SecurityError")
    ELSE LET norm == LStrip(LStrip(NormPath(name), "/"), "\\") IN
         IF \/ StartsWith(norm, DOTDOT)
            \/ Contains(norm, <<"/", ".", ".">>)
            \/ Contains(norm, <<"\\", ".", ".">>)
         THEN Raised("SecurityError")
         ELSE LET full == IF HasValidExtension(norm) THEN norm
                          ELSE norm \o DEFAULT_FILE_EXTENSION
                  template_dir  == PathResolve(links, TemplateDir)
                  template_path == ResolveFrom(links, template_dir, Segments(full))
              IN  IF RelativeTo(template_dir, template_path)
                  THEN Returned(template_path)
                  ELSE Raised("SecurityError")

(***************************************************************************)
(* ComponentBase._validate_component_name / _resolve_component_path        *)
(***************************************************************************)
\* COMPONENT_NAME_PATTERN = ^[a-z0-9\-\.]+$ (IGNORECASE), over the characters
\* the model's names are built from
ComponentNameChars ==
    { "a", "b", "c", "d", "e", "f", "g", "h", "i", "j", "k", "l", "m", "n", "o",
      "p", "q", "r", "s", "t", "u", "v", "w", "x", "y", "z",
      "0", "1", "2", "3", "4", "5", "6", "7", "8", "9", "-", "." }

MatchesComponentNamePattern(name) ==
    /\ name # <<>>
    /\ \A i \in 1..Len(name) : name[i] \in ComponentNameChars

ValidComponentName(name) ==
    /\ MatchesComponentNamePattern(name)
    /\ ~(Contains(name, DOTDOT) \/ IsAbs(name))
    /\ ~(StartsWith(name, <<"/">>) \/ StartsWith(name, <<"\\">>))

\* the path built for a name; subdir = <<>> stands for subdir=None
ComponentFile(name, subdir) ==
    LET joined == IF subdir # <<>>
                  THEN PathJoin(PathJoin(TemplateDir, subdir),
                                ReplaceChar(name, ".", "/"))
                  ELSE PathJoin(TemplateDir, name)
    IN  IF HasValidExtension(joined) THEN joined
        ELSE joined \o DEFAULT_FILE_EXTENSION

ResolveComponentPath(name, subdir, exists) ==
    IF ~ValidComponentName(name) THEN Raised("SecurityError")
    ELSE IF exists THEN Returned(ComponentFile(name, subdir))
    ELSE [st |-> "raised", err |-> "TemplateNotFoundException",
          path |-> ComponentFile(name, subdir)]

\* the directory x-component files are meant to live in
ComponentRoot == Segments(PathJoin(TemplateDir, COMPONENT_SUBDIR))

(***************************************************************************)
(* The inputs of the two path resolvers.                                   *)
(***************************************************************************)
NameChars == {"a", ".", "/", "\\"}

\* every short name, and a few names that already carry an extension
TemplateNames ==
    SeqsUpTo(NameChars, MaxNameLen)
    \cup { <<"a", ".", "t", "x", "t">>, <<"a", "/", "b", ".", "t", "p", "l">>,
           <<".", ".", "/", "a", ".", "h", "t", "m", "l">> }

ComponentTagChars == {"a", "-", ".", "/"}

ComponentNames == SeqsUpTo(ComponentTagChars, MaxNameLen)

(***************************************************************************)
(* Template text: sequences of tokens.                                     *)
(*   k  the kind of token                                                  *)
(*   a  its first argument (a character, an expression, a name)            *)
(*   b  its second argument                                                *)
(*   f  history flag: the token was emitted by an interpolation, that is   *)
(*      it is text produced from a context value                           *)
(***************************************************************************)
Tok(k, a, b) == [k |-> k, a |-> a, b |-> b, f |-> FALSE]

C(ch)           == Tok("c", ch, "")             \* one character of text
Esc(e)          == Tok("esc", e, "")            \* {{ e }}
Raw(e)          == Tok("raw", e, "")            \* {!! e !!}
Extends(n)      == Tok("extends", n, "")        \* @extends('n')
Section(n)      == Tok("section", n, "")        \* @section('n')
EndSection      == Tok("endsection", "", "")    \* @endsection
Yield(n, d)     == Tok("yield", n, d)           \* @yield('n', 'd'); d = "" for none
Foreach(v, e)   == Tok("foreach", v, e)         \* @foreach(v in e)
EndForeach      == Tok("endforeach", "", "")
For(v, e)       == Tok("for", v, e)             \* @for(v in e)
EndFor          == Tok("endfor", "", "")
If(e)           == Tok("if", e, "")             \* @if(e)
ElseIf(e)       == Tok("elseif", e, "")         \* @elseif(e)
Else            == Tok("else", "", "")
EndIf           == Tok("endif", "", "")
Break           == Tok("break", "", "")         \* @break
Continue        == Tok("continue", "", "")      \* @continue
Include(n)      == Tok("include", n, "")        \* @include('n')
IncludeIf(n, e) == Tok("includeIf", n, e)       \* @includeIf('n', e)
Push(n)         == Tok("push", n, "")           \* @push('n')
EndPush         == Tok("endpush", "", "")
Prepend(n)      == Tok("prepend", n, "")        \* @prepend('n')
EndPrepend      == Tok("endprepend", "", "")
Stack(n)        == Tok("stack", n, "")          \* @stack('n')
Switch(e)       == Tok("switch", e, "")         \* @switch(e)
Case(e)         == Tok("case", e, "")           \* @case(e)
Default         == Tok("default", "", "")
EndSwitch       == Tok("endswitch", "", "")
XSelf(n, e)     == Tok("xself", n, e)           \* <x-n :v="e" />, <x-n /> if e = ""
CDir(n, e)      == Tok("cdir", n, e)            \* @n(e), n a registered directive
Comment         == Tok("comment", "", "")       \* {{-- ... --}}

Text(s) == [i \in 1..Len(s) |-> C(s[i])]

Mark(s) == [i \in 1..Len(s) |-> [s[i] EXCEPT !.f = TRUE]]

\* directive kinds whose source text holds a quote character
QuotedKinds == {"include", "includeIf", "push", "prepend", "stack", "xself",
                "extends", "section", "yield"}

IsSpace(tok) == tok.k = "c" /\ tok.a \in {" ", "\n"}

RECURSIVE LStripWs(_)
LStripWs(s) == IF s # <<>> /\ IsSpace(Head(s)) THEN LStripWs(Tail(s)) ELSE s

RECURSIVE RStripWs(_)
RStripWs(s) ==
    IF s # <<>> /\ IsSpace(s[Len(s)]) THEN RStripWs(SubSeq(s, 1, Len(s) - 1)) ELSE s

StripWs(s) == RStripWs(LStripWs(s))

\* index of the first token at or after `from` whose kind is in K; 0 if none
FindKind(t, from, K) ==
    IF \E i \in from..Len(t) : t[i].k \in K
    THEN CHOOSE i \in from..Len(t) :
            /\ t[i].k \in K
            /\ \A j \in from..(i - 1) : t[j].k \notin K
    ELSE 0

HasKind(t, K) == \E i \in 1..Len(t) : t[i].k \in K

(***************************************************************************)
(* Context values.                                                         *)
(***************************************************************************)
StrV(s)  == [t |-> "str",  s |-> s,    b |-> FALSE, l |-> <<>>]
SafeV(s) == [t |-> "safe", s |-> s,    b |-> FALSE, l |-> <<>>]   \* SafeString
BoolV(b) == [t |-> "bool", s |-> <<>>, b |-> b,     l |-> <<>>]
NoneV    == [t |-> "none", s |-> <<>>, b |-> FALSE, l |-> <<>>]
ListV(l) == [t |-> "list", s |-> <<>>, b |-> FALSE, l |-> l]

Truthy(v) ==
    CASE v.t \in {"str", "safe"} -> v.s # <<>>
      [] v.t = "bool" -> v.b
      [] v.t = "list" -> v.l # <<>>
      [] OTHER -> FALSE

\* str(value) of a scalar
StrScalar(v) ==
    CASE v.t \in {"str", "safe"} -> v.s
      [] v.t = "bool" -> IF v.b THEN Text(<<"T", "r", "u", "e">>)
                         ELSE Text(<<"F", "a", "l", "s", "e">>)
      [] OTHER -> Text(<<"N", "o", "n", "e">>)

\* repr(value) of a list element
ReprScalar(v) ==
    IF v.t \in {"str", "safe"} THEN <<C("'")>> \o v.s \o <<C("'")>>
    ELSE StrScalar(v)

RECURSIVE ReprItems(_)
ReprItems(l) ==
    IF l = <<>> THEN <<>>
    ELSE IF Len(l) = 1 THEN ReprScalar(l[1])
    ELSE ReprScalar(l[1]) \o Text(<<",", " ">>) \o ReprItems(Tail(l))

StrOf(v) ==
    IF v.t = "list" THEN <<C("[")>> \o ReprItems(v.l) \o <<C("]")>>
    ELSE StrScalar(v)

\* what `for value in iterable` yields; a string yields its characters
Items(v) ==
    IF v.t = "list" THEN v.l
    ELSE [i \in 1..Len(v.s) |-> StrV(<<v.s[i]>>)]

Iterable(v) == v.t \in {"list", "str", "safe"}

\* ChainMap({var: value}, context)
Overlay(ctx, var, value) ==
    [n \in DOMAIN ctx \cup {var} |-> IF n = var THEN value ELSE ctx[n]]

(***************************************************************************)
(* SafeEvaluator.safe_eval on the expressions the templates use.           *)
(*   st = "ok"     the expression has a value                              *)
(*   st = "sec"    SecurityError (a disallowed node, a dunder attribute)   *)
(*   st = "undef"  DirectiveError "name '..' is not defined"               *)
(*   st = "err"    DirectiveError for any other failure                    *)
(***************************************************************************)
SecurityExprs == {"x.__class__"}
FailingExprs  == {"1/0"}

Eval(expr, ctx) ==
    IF expr = "" THEN [st |-> "ok", v |-> NoneV]
    ELSE IF expr \in SecurityExprs THEN [st |-> "sec", v |-> NoneV]
    ELSE IF expr = "True" THEN [st |-> "ok", v |-> BoolV(TRUE)]
    ELSE IF expr = "False" THEN [st |-> "ok", v |-> BoolV(FALSE)]
    ELSE IF expr = "None" THEN [st |-> "ok", v |-> NoneV]
    ELSE IF expr \in FailingExprs THEN [st |-> "err", v |-> NoneV]
    ELSE IF expr \in DOMAIN ctx THEN [st |-> "ok", v |-> ctx[expr]]
    ELSE [st |-> "undef", v |-> NoneV]

(***************************************************************************)
(* The state a render threads through its passes, and what a pass returns. *)
(*   stacks, depth   StackHandler.stacks, TemplateParser._recursion_depth  *)
(*   sec             history: the evaluator raised SecurityError           *)
(*   deep            history: an include exceeded max_recursion_depth      *)
(*   loopx           history: a loop exceeded max_loop_iterations          *)
(*   reint           history: a pass interpreted a token with f = TRUE     *)
(*   entered         history: includes entered                             *)
(*   overflow        history: the interpreter raised RecursionError        *)
(*   level           the process_template and ControlStructureHandler      *)
(*                   .process calls that are running                       *)
(*   log             history: the passes started, each with its level      *)
(*   varsec          history: an interpolation raised SecurityError        *)
(*   varfail         history: an interpolation's evaluation failed         *)
(*                   otherwise                                             *)
(* A result has err = "" on return and the exception's class otherwise;    *)
(* nd says that the exception's message contains "is not defined".         *)
(***************************************************************************)
Ok(out, m)      == [err |-> "", nd |-> FALSE, out |-> out, m |-> m]
Fail(e, nd, m)  == [err |-> e,  nd |-> nd,    out |-> <<>>, m |-> m]

\* the text before a match, then the replacement, then the rest's result
Emit(out, r) == IF r.err # "" THEN r ELSE [r EXCEPT !.out = out \o @]

Touch(tok, m) == IF tok.f THEN [m EXCEPT !.reint = TRUE] ELSE m

\* entering and leaving process_template or ControlStructureHandler.process,
\* and the start of one of its passes
Enter(m) == [m EXCEPT !.level = @ + 1]

Leave(r) == [r EXCEPT !.m.level = @ - 1]

Pass(name, m) == [m EXCEPT !.log = Append(@, [lvl |-> m.level, pass |-> name])]

\* `v = ...` followed by the statements K that use v
With(v, K(_)) == K(v)

\* `out = step(...)` followed by the statements K: an exception raised by
\* the step leaves the function, and K runs on what the step returned
Then(r, K(_, _)) == IF r.err # "" THEN r ELSE K(r.out, r.m)

EvalM(expr, ctx, m) ==
    LET r == Eval(expr, ctx)
    IN  [st |-> r.st, v |-> r.v,
         err |-> IF r.st = "sec" THEN "SecurityError" ELSE "DirectiveError",
         nd |-> r.st = "undef",
         m |-> IF r.st = "sec" THEN [m EXCEPT !.sec = TRUE] ELSE m]

(***************************************************************************)
(* VariableHandler                                                         *)
(***************************************************************************)
\* str.replace(ch, repl) on the text characters
RECURSIVE ReplaceText(_, _, _)
ReplaceText(s, ch, repl) ==
    IF s = <<>> THEN <<>>
    ELSE IF Head(s).k = "c" /\ Head(s).a = ch
         THEN Text(repl) \o ReplaceText(Tail(s), ch, repl)
         ELSE <<Head(s)>> \o ReplaceText(Tail(s), ch, repl)

\* replacing the quote characters also rewrites the quotes inside a
\* directive's own source text, which leaves no directive behind
KillQuoted(s) ==
    [i \in 1..Len(s) |-> IF s[i].k \in QuotedKinds
                         THEN [s[i] EXCEPT !.k = "dead"] ELSE s[i]]

EscapeHtml(s) ==
    LET s1 == ReplaceText(s,  "&", <<"&", "a", "m", "p", ";">>)
        s2 == ReplaceText(s1, "<", <<"&", "l", "t", ";">>)
        s3 == ReplaceText(s2, ">", <<"&", "g", "t", ";">>)
        s4 == ReplaceText(s3, "\"", <<"&", "q", "u", "o", "t", ";">>)
        s5 == ReplaceText(s4, "'", <<"&", "#", "x", "2", "7", ";">>)
    IN  KillQuoted(s5)

OutputVariable(tok, ctx, escape, m) ==
    With(EvalM(tok.a, ctx, Touch(tok, m)), LAMBDA e :
    IF e.st = "sec" THEN Fail("SecurityError", FALSE, [e.m EXCEPT !.varsec = TRUE])
    ELSE IF e.st # "ok"
    THEN IF strict_mode THEN Fail(e.err, e.nd, [e.m EXCEPT !.varfail = TRUE])
         ELSE Ok(<<>>, [e.m EXCEPT !.varfail = TRUE])
    ELSE LET result == IF e.v.t = "none" THEN <<>> ELSE StrOf(e.v) IN
         IF e.v.t = "safe" THEN Ok(Mark(result), e.m)
         ELSE IF escape THEN Ok(Mark(EscapeHtml(result)), e.m)
         ELSE Ok(Mark(result), e.m))

\* one re.sub over the tokens of kind `kind`
RECURSIVE VarSub(_, _, _, _, _)
VarSub(t, kind, escape, ctx, m) ==
    LET i == FindKind(t, 1, {kind}) IN
    IF i = 0 THEN Ok(t, m)
    ELSE Then(OutputVariable(t[i], ctx, escape, m), LAMBDA out, m1 :
              Emit(SubSeq(t, 1, i - 1) \o out,
                   VarSub(SubSeq(t, i + 1, Len(t)), kind, escape, ctx, m1)))

VariableProcess(t, ctx, m) ==
    Then(VarSub(t, "esc", TRUE, ctx, m), LAMBDA out, m1 :
         VarSub(out, "raw", FALSE, ctx, m1))

(***************************************************************************)
(* Control structures: MiscHandler, SwitchHandler, LoopHandler,            *)
(* ConditionalHandler, and ControlStructureHandler which runs them.        *)
(***************************************************************************)
allow_python_blocks == FALSE

RECURSIVE ControlProcess(_, _, _)
RECURSIVE ProcessForeach(_, _, _, _)
RECURSIVE ProcessFor(_, _, _)
RECURSIVE ConditionalProcess(_, _, _, _)

\* MiscHandler.process: comments are removed, @python is refused
MiscProcess(t, ctx, m) ==
    LET t1 == SelectSeq(t, LAMBDA x : x.k # "comment") IN
    IF HasKind(t1, {"python"}) /\ ~allow_python_blocks
    THEN Fail("SecurityError", FALSE, m)
    ELSE Ok(t1, m)

(* ---- LoopHandler ---- *)
\* 0 stands for TemplateSyntaxError("Unmatched @foreach")
RECURSIVE FindMatchingEndforeach(_, _, _)
FindMatchingEndforeach(t, pos, depth) ==
    IF pos > Len(t) THEN 0
    ELSE LET next_foreach    == FindKind(t, pos, {"foreach"})
             next_endforeach == FindKind(t, pos, {"endforeach"})
         IN  IF next_endforeach = 0 THEN 0
             ELSE IF next_foreach # 0 /\ next_foreach < next_endforeach
             THEN FindMatchingEndforeach(t, next_foreach + 1, depth + 1)
             ELSE IF depth = 1 THEN next_endforeach
             ELSE FindMatchingEndforeach(t, next_endforeach + 1, depth - 1)

\* `except SecurityError: raise / except Exception: raise TemplateSyntaxError`
WrapLoop(r) ==
    IF r.err \in {"", "SecurityError"} THEN r
    ELSE Fail("TemplateSyntaxError", r.nd, r.m)

\* the body of one iteration: nested loops, then conditionals, then variables
LoopBody(nested, ctx, m) ==
    Then(nested, LAMBDA out1, m1 :
    Then(ConditionalProcess(out1, 1, ctx, m1), LAMBDA out2, m2 :
         VariableProcess(out2, ctx, m2)))

\* `for value in iterable`, with the iteration limit; kind is the loop's kind
RECURSIVE Iterate(_, _, _, _, _, _, _, _)
Iterate(kind, items, iteration_count, loop_body, loop_var, ctx, m, output) ==
    IF items = <<>> THEN Ok(output, m)
    ELSE IF iteration_count >= max_loop_iterations
    THEN Fail("SecurityError", FALSE, [m EXCEPT !.loopx = TRUE])
    ELSE LET loop_context == Overlay(ctx, loop_var, Head(items)) IN
         With(LoopBody(IF kind = "foreach"
                       THEN ProcessForeach(loop_body, 1, loop_context, m)
                       ELSE ProcessFor(loop_body, loop_context, m),
                       loop_context, m),
              LAMBDA rendered :
                IF rendered.err = "ContinueLoop"
                THEN Iterate(kind, Tail(items), iteration_count + 1, loop_body,
                             loop_var, ctx, rendered.m, output)
                ELSE IF rendered.err = "BreakLoop" THEN Ok(output, rendered.m)
                ELSE IF rendered.err # "" THEN rendered
                ELSE Iterate(kind, Tail(items), iteration_count + 1, loop_body,
                             loop_var, ctx, rendered.m, output \o rendered.out))

\* the header's evaluation and the loop over the iterable
RunLoop(tok, loop_body, ctx, m) ==
    With(EvalM(tok.b, ctx, Touch(tok, m)), LAMBDA h :
    IF h.st # "ok" THEN Fail("TemplateSyntaxError", h.nd, h.m)
    ELSE IF ~Iterable(h.v) THEN Fail("TemplateSyntaxError", FALSE, h.m)
    ELSE WrapLoop(Iterate(tok.k, Items(h.v), 0, loop_body, tok.a, ctx, h.m, <<>>)))

ProcessForeach(t, offset, ctx, m) ==
    LET i == FindKind(t, offset, {"foreach"}) IN
    IF i = 0 THEN Ok(t, m)
    ELSE LET end_pos == FindMatchingEndforeach(t, i + 1, 1) IN
         IF end_pos = 0 THEN Fail("TemplateSyntaxError", FALSE, m)
         ELSE Then(RunLoop(t[i], SubSeq(t, i + 1, end_pos - 1), ctx, m),
                   LAMBDA out, m1 :
                     ProcessForeach(SubSeq(t, 1, i - 1) \o out
                                        \o SubSeq(t, end_pos + 1, Len(t)),
                                    i + Len(out), ctx, m1))

\* FOR_PATTERN.sub: the body runs to the first "@endfor", which is also the
\* start of an "@endforeach"
ProcessFor(t, ctx, m) ==
    LET i == FindKind(t, 1, {"for"}) IN
    IF i = 0 THEN Ok(t, m)
    ELSE LET e == FindKind(t, i + 1, {"endfor", "endforeach"}) IN
         IF e = 0 THEN Ok(t, m)
         ELSE LET rest == (IF t[e].k = "endforeach"
                           THEN Text(<<"e", "a", "c", "h">>) ELSE <<>>)
                          \o SubSeq(t, e + 1, Len(t))
              IN  Then(RunLoop(t[i], LStripWs(SubSeq(t, i + 1, e - 1)), ctx, m),
                       LAMBDA out, m1 :
                         Emit(SubSeq(t, 1, i - 1) \o out, ProcessFor(rest, ctx, m1)))

LoopProcess(t, ctx, m) ==
    Then(ProcessForeach(t, 1, ctx, m), LAMBDA out, m1 : ProcessFor(out, ctx, m1))

(* ---- ConditionalHandler ---- *)
\* the scan for the matching @endif; 0 stands for body_end = -1
RECURSIVE MatchingEndif(_, _, _)
MatchingEndif(t, search_pos, depth) ==
    IF search_pos > Len(t) THEN 0
    ELSE LET nested_if   == FindKind(t, search_pos, {"if"})
             endif_match == FindKind(t, search_pos, {"endif"})
         IN  IF endif_match # 0 /\ (nested_if = 0 \/ endif_match < nested_if)
             THEN IF depth = 1 THEN endif_match
                  ELSE MatchingEndif(t, endif_match + 1, depth - 1)
             ELSE IF nested_if # 0 THEN MatchingEndif(t, nested_if + 1, depth + 1)
             ELSE 0

AppendBody(branches, tok) ==
    [branches EXCEPT ![Len(branches)].body = Append(@, tok)]

RECURSIVE SplitScan(_, _, _, _)
SplitScan(body, i, depth, branches) ==
    IF i > Len(body) THEN branches
    ELSE LET tok == body[i] IN
         IF tok.k = "if"
         THEN SplitScan(body, i + 1, depth + 1, AppendBody(branches, tok))
         ELSE IF tok.k = "endif" /\ depth > 0
         THEN SplitScan(body, i + 1, depth - 1, AppendBody(branches, tok))
         ELSE IF depth = 0 /\ tok.k = "elseif"
         THEN SplitScan(body, i + 1, depth,
                        Append(branches, [type |-> "elseif", condition |-> tok.a,
                                          body |-> <<>>, f |-> tok.f]))
         ELSE IF depth = 0 /\ tok.k = "else"
         THEN SplitScan(body, i + 1, depth,
                        Append(branches, [type |-> "else", condition |-> "",
                                          body |-> <<>>, f |-> tok.f]))
         ELSE SplitScan(body, i + 1, depth, AppendBody(branches, tok))

\* a split at every @elseif and @else, whatever the nesting
SplitConditionalBranchesFlat(body) ==
    SplitScan(SelectSeq(body, LAMBDA tok : tok.k \notin {"if", "endif"}), 1, 0,
              <<[type |-> "if", condition |-> "", body |-> <<>>, f |-> FALSE]>>)

SplitConditionalBranches(body) ==
    SplitScan(body, 1, 0,
              <<[type |-> "if", condition |-> "", body |-> <<>>, f |-> FALSE]>>)

\* the loop over parts[1:]
RECURSIVE Branches(_, _, _, _)
Branches(parts, k, ctx, m) ==
    IF k > Len(parts) THEN Ok(<<>>, m)
    ELSE IF parts[k].type = "elseif"
    THEN With(EvalM(parts[k].condition, ctx,
                    IF parts[k].f THEN [m EXCEPT !.reint = TRUE] ELSE m),
              LAMBDA c :
                IF c.st = "ok" /\ Truthy(c.v)
                THEN With(ControlProcess(parts[k].body, ctx, c.m), LAMBDA r :
                          IF r.err = "" THEN r ELSE Branches(parts, k + 1, ctx, r.m))
                ELSE Branches(parts, k + 1, ctx, c.m))
    ELSE ControlProcess(parts[k].body, ctx, m)

ProcessIfBlock(tok, body, ctx, m) ==
    LET parts == SplitConditionalBranches(body) IN
    With(EvalM(tok.a, ctx, Touch(tok, m)), LAMBDA c :
    IF c.st = "ok"
    THEN IF Truthy(c.v)
         THEN With(ControlProcess(parts[1].body, ctx, c.m), LAMBDA r :
                   IF r.err = "" THEN r
                   ELSE IF r.nd THEN Branches(parts, 2, ctx, r.m)
                   ELSE Fail("TemplateSyntaxError", FALSE, r.m))
         ELSE Branches(parts, 2, ctx, c.m)
    ELSE IF c.nd THEN Branches(parts, 2, ctx, c.m)
    ELSE Fail("TemplateSyntaxError", FALSE, c.m))

ConditionalProcess(t, offset, ctx, m) ==
    LET i == FindKind(t, offset, {"if"}) IN
    IF i = 0 THEN Ok(t, m)
    ELSE IF t[i].a = "" THEN ConditionalProcess(t, i + 1, ctx, m)
    ELSE LET body_end == MatchingEndif(t, i + 1, 1) IN
         IF body_end = 0 THEN ConditionalProcess(t, i + 1, ctx, m)
         ELSE Then(ProcessIfBlock(t[i], SubSeq(t, i + 1, body_end - 1), ctx, m),
                   LAMBDA out, m1 :
                     ConditionalProcess(SubSeq(t, 1, i - 1) \o out
                                            \o SubSeq(t, body_end + 1, Len(t)),
                                        i + Len(out), ctx, m1))

(* ---- SwitchHandler ---- *)
\* SafeString is a str: the two compare equal on equal text
ValEq(v, w) ==
    IF v.t \in {"str", "safe"} /\ w.t \in {"str", "safe"} THEN v.s = w.s ELSE v = w

StripBreak(s) == SelectSeq(s, LAMBDA x : x.k # "break")

\* DEFAULT_PATTERN: up to the end, or to the newline that ends the text
DefaultCase(switch_body, ctx, m) ==
    LET d == FindKind(switch_body, 1, {"default"}) IN
    IF d = 0 THEN Ok(<<>>, m)
    ELSE LET n == Len(switch_body)
             last_nl == n > d /\ switch_body[n].k = "c" /\ switch_body[n].a = "\n"
             default_body == SubSeq(switch_body, d + 1, IF last_nl THEN n - 1 ELSE n)
         IN  ControlProcess(StripBreak(default_body), ctx, m)

\* CASE_PATTERN.finditer: a case ends where the next @case( or @default starts
RECURSIVE Cases(_, _, _, _, _)
Cases(switch_body, from, switch_value, ctx, m) ==
    LET c == FindKind(switch_body, from, {"case"}) IN
    IF c = 0 THEN DefaultCase(switch_body, ctx, m)
    ELSE LET n == FindKind(switch_body, c + 1, {"case", "default"}) IN
         IF n = 0 THEN DefaultCase(switch_body, ctx, m)
         ELSE With(EvalM(switch_body[c].a, ctx, Touch(switch_body[c], m)),
                   LAMBDA cv :
                     IF cv.st = "ok" /\ ValEq(switch_value, cv.v)
                     THEN ControlProcess(StripBreak(SubSeq(switch_body, c + 1, n - 1)),
                                         ctx, cv.m)
                     ELSE Cases(switch_body, n, switch_value, ctx, cv.m))

RECURSIVE SwitchProcess(_, _, _)
SwitchProcess(t, ctx, m) ==
    LET i == FindKind(t, 1, {"switch"}) IN
    IF i = 0 THEN Ok(t, m)
    ELSE LET e == FindKind(t, i + 1, {"endswitch"}) IN
         IF e = 0 THEN Ok(t, m)
         ELSE With(EvalM(t[i].a, ctx, Touch(t[i], m)), LAMBDA sv :
              IF sv.st # "ok" THEN Fail("TemplateSyntaxError", sv.nd, sv.m)
              ELSE Then(Cases(SubSeq(t, i + 1, e - 1), 1, sv.v, ctx, sv.m),
                        LAMBDA out, m1 :
                          Emit(SubSeq(t, 1, i - 1) \o out,
                               SwitchProcess(SubSeq(t, e + 1, Len(t)), ctx, m1))))

(* ---- ControlStructureHandler.process ---- *)
\* ControlStructureHandler.process with the conditionals before the loops
ControlProcessConditionalsFirst(t, ctx, m) ==
    Leave(
    Then(MiscProcess(t, ctx, Pass("misc", Enter(m))),               LAMBDA out1, m1 :
    Then(SwitchProcess(out1, ctx, Pass("switch", m1)),              LAMBDA out2, m2 :
    Then(ConditionalProcess(out2, 1, ctx, Pass("conditionals", m2)), LAMBDA out3, m3 :
         LoopProcess(out3, ctx, Pass("loops", m3))))))

ControlProcess(t, ctx, m) ==
    Leave(
    Then(MiscProcess(t, ctx, Pass("misc", Enter(m))),     LAMBDA out1, m1 :
    Then(SwitchProcess(out1, ctx, Pass("switch", m1)),    LAMBDA out2, m2 :
    Then(LoopProcess(out2, ctx, Pass("loops", m2)),       LAMBDA out3, m3 :
         ConditionalProcess(out3, 1, ctx, Pass("conditionals", m3))))))

(***************************************************************************)
(* The files under the template root, and the spelling of the names and    *)
(* expressions that templates mention.                                     *)
(***************************************************************************)
Spelling ==
    [ e \in {"../a", "x.__class__", "1/0"} |->
        CASE e = "../a"        -> <<".", ".", "/", "a">>
          [] e = "x.__class__" -> <<"x", ".", "_", "_", "c", "l", "a", "s", "s", "_", "_">>
          [] e = "1/0"         -> <<"1", "/", "0">> ]

Spell(n) == IF n \in DOMAIN Spelling THEN Spelling[n] ELSE <<n>>

ViewPath(n) == Segments(TemplateDir) \o << Spell(n) \o DEFAULT_FILE_EXTENSION >>

ComponentPath(n) ==
    Segments(TemplateDir) \o <<COMPONENT_SUBDIR>> \o << Spell(n) \o DEFAULT_FILE_EXTENSION >>

\* The include chain: 1.html is a leaf, and (k+1).html includes k.html, so
\* that @include('k') opens a chain of k nested includes.
ChainNames == <<"1", "2", "3", "4", "5", "6", "7", "8", "9">>

ChainName(k) == ChainNames[k]

ChainFiles ==
    { [path |-> ViewPath(ChainName(k)),
       src  |-> IF k = 1 THEN <<C("c"), Esc("v")>>
                ELSE <<C("i"), Include(ChainName(k - 1))>>] :
      k \in 1..(max_recursion_depth + 1) }

\*  s.html              s@include('s')                 includes itself
\*  i.html              @includeIf('<max>', True)      a chain through @includeIf
\*  r.html              {!! x !!}
\*  components/w.html   w<x-w />                       holds its own tag
\*  l.html              L@yield('content')             a layout
\*  g.html              G(@yield('body'))              a layout
\*  p.html              @extends('g')@section('body')P[@yield('content')]@endsection
\*  components/k.html   <{{ v }}>
Files ==
    ChainFiles \cup
    { [path |-> ViewPath("s"), src |-> <<C("s"), Include("s")>>],
      [path |-> ViewPath("i"),
       src |-> <<IncludeIf(ChainName(max_recursion_depth), "True")>>],
      [path |-> ViewPath("r"), src |-> <<Raw("x")>>],
      [path |-> ViewPath("l"), src |-> <<C("L"), Yield("content", "")>>],
      [path |-> ViewPath("g"), src |-> <<C("G"), C("("), Yield("body", ""), C(")")>>],
      [path |-> ViewPath("p"),
       src |-> <<Extends("g"), Section("body"), C("P"), C("["), Yield("content", ""),
                 C("]"), EndSection>>],
      [path |-> ComponentPath("k"), src |-> <<C("<"), Esc("v"), C(">")>>],
      [path |-> ComponentPath("w"), src |-> <<C("w"), XSelf("w", "")>>] }

FileExists(p) == \E f \in Files : f.path = p

ReadFile(p) == (CHOOSE f \in Files : f.path = p).src

(***************************************************************************)
(* TemplateParser.process_template and the handlers that call it back.     *)
(* fuel counts the nested process_template calls the interpreter still     *)
(* allows before it raises RecursionError.                                 *)
(***************************************************************************)
MAX_COMPONENT_NESTING_ITERATIONS == 20

StackNames == {"s", "t"}

RECURSIVE ProcessTemplate(_, _, _, _)

(* ---- StackHandler.process_push and PrependHandler.process ---- *)
RECURSIVE CollectBlocks(_, _, _, _)
CollectBlocks(t, open, close, m) ==
    LET i == FindKind(t, 1, {open}) IN
    IF i = 0 THEN Ok(t, m)
    ELSE LET e == FindKind(t, i + 1, {close}) IN
         IF e = 0 THEN Ok(t, m)
         ELSE LET content == StripWs(SubSeq(t, i + 1, e - 1))
                  m1 == IF open = "push"
                        THEN [m EXCEPT !.stacks[t[i].a] = Append(@, content)]
                        ELSE [m EXCEPT !.stacks[t[i].a] = <<content>> \o @]
              IN  Emit(SubSeq(t, 1, i - 1),
                       CollectBlocks(SubSeq(t, e + 1, Len(t)), open, close, m1))

ProcessPush(t, m) == CollectBlocks(t, "push", "endpush", m)

PrependProcess(t, m) == CollectBlocks(t, "prepend", "endprepend", m)

(* ---- StackHandler.process_stack ---- *)
\* '\n'.join over the collected bodies taken last to first
RECURSIVE JoinLinesLastFirst(_)
JoinLinesLastFirst(parts) ==
    IF parts = <<>> THEN <<>>
    ELSE IF Len(parts) = 1 THEN parts[1]
    ELSE parts[Len(parts)] \o <<C("\n")>>
         \o JoinLinesLastFirst(SubSeq(parts, 1, Len(parts) - 1))

RECURSIVE JoinLines(_)
JoinLines(parts) ==
    IF parts = <<>> THEN <<>>
    ELSE IF Len(parts) = 1 THEN parts[1]
    ELSE parts[1] \o <<C("\n")>> \o JoinLines(Tail(parts))

RECURSIVE ProcessStack(_, _, _, _)
ProcessStack(t, ctx, m, fuel) ==
    LET i == FindKind(t, 1, {"stack"}) IN
    IF i = 0 THEN Ok(t, m)
    ELSE LET m1 == Touch(t[i], m) IN
         Then(IF m1.stacks[t[i].a] = <<>> THEN Ok(<<>>, m1)
              ELSE ProcessTemplate(JoinLines(m1.stacks[t[i].a]), ctx, m1, fuel - 1),
              LAMBDA out, m2 :
                Emit(SubSeq(t, 1, i - 1) \o out,
                     ProcessStack(SubSeq(t, i + 1, Len(t)), ctx, m2, fuel)))

(* ---- IncludeHandler ---- *)
\* `finally: parser._recursion_depth -= 1`
AfterIncludeOnReturnOnly(r) ==
    IF r.err = "" THEN [r EXCEPT !.m.depth = @ - 1] ELSE r

AfterInclude(r) == [r EXCEPT !.m.depth = @ - 1]

GetIncluded(name, ctx, m, fuel) ==
    LET m1 == [m EXCEPT !.depth = @ + 1, !.entered = @ + 1,
                        !.peak = IF m.depth + 1 > @ THEN m.depth + 1 ELSE @] IN
    IF m1.depth > max_recursion_depth
    THEN Fail("SecurityError", FALSE, [m1 EXCEPT !.depth = @ - 1, !.deep = TRUE])
    ELSE AfterInclude(
           With(ResolveTemplatePath(<<>>, Spell(name)), LAMBDA template_path :
           IF template_path.st = "raised" THEN Fail(template_path.err, FALSE, m1)
           ELSE IF ~FileExists(template_path.path)
           THEN Fail("TemplateNotFoundException", FALSE, m1)
           ELSE ProcessTemplate(ReadFile(template_path.path), ctx, m1, fuel - 1)))

RECURSIVE IncludeSub(_, _, _, _)
IncludeSub(t, ctx, m, fuel) ==
    LET i == FindKind(t, 1, {"include"}) IN
    IF i = 0 THEN Ok(t, m)
    ELSE Then(GetIncluded(t[i].a, ctx, Touch(t[i], m), fuel), LAMBDA out, m1 :
              Emit(SubSeq(t, 1, i - 1) \o out,
                   IncludeSub(SubSeq(t, i + 1, Len(t)), ctx, m1, fuel)))

\* include_if_replacer: the try covers the condition and the include alike
IncludeIfReplacer(tok, ctx, m, fuel) ==
    With(EvalM(tok.b, ctx, Touch(tok, m)), LAMBDA c :
    IF c.st # "ok" THEN Fail("TemplateSyntaxError", c.nd, c.m)
    ELSE IF ~Truthy(c.v) THEN Ok(<<>>, c.m)
    ELSE With(GetIncluded(tok.a, ctx, c.m, fuel), LAMBDA r :
              IF r.err = "" THEN r ELSE Fail("TemplateSyntaxError", r.nd, r.m)))

RECURSIVE IncludeIfSub(_, _, _, _)
IncludeIfSub(t, ctx, m, fuel) ==
    LET i == FindKind(t, 1, {"includeIf"}) IN
    IF i = 0 THEN Ok(t, m)
    ELSE Then(IncludeIfReplacer(t[i], ctx, m, fuel), LAMBDA out, m1 :
              Emit(SubSeq(t, 1, i - 1) \o out,
                   IncludeIfSub(SubSeq(t, i + 1, Len(t)), ctx, m1, fuel)))

IncludeProcess(t, ctx, m, fuel) ==
    Then(IncludeSub(t, ctx, m, fuel), LAMBDA out, m1 :
         IncludeIfSub(out, ctx, m1, fuel))

(* ---- XComponentHandler (self-closing tags with one dynamic attribute) ---- *)
\* _parse_attributes: a failed evaluation falls back to the expression text
ParseAttribute(tok, ctx, m) ==
    LET e == EvalM(tok.b, ctx, m) IN
    [v |-> IF e.st = "ok" THEN e.v ELSE StrV(Text(Spell(tok.b))), m |-> e.m]

\* _format_attributes for the attribute v
FormatAttributes(value) ==
    IF value.t = "bool" /\ value.b THEN Text(<<"v">>)
    ELSE IF value.t \in {"bool", "none"} THEN <<>>
    ELSE Text(<<"v", "=", "\"">>)
         \o ReplaceText(StrOf(value), "\"", <<"&", "q", "u", "o", "t", ";">>)
         \o Text(<<"\"">>)

RenderXComponent(tok, ctx, m, fuel) ==
    With(ResolveComponentPath(Spell(tok.a), COMPONENT_SUBDIR,
             FileExists(Segments(ComponentFile(Spell(tok.a), COMPONENT_SUBDIR)))),
         LAMBDA p :
    IF p.st = "raised" THEN Fail(p.err, FALSE, m)
    ELSE With(IF tok.b = "" THEN [v |-> NoneV, m |-> m]
              ELSE ParseAttribute(tok, ctx, m),
              LAMBDA attr :
    LET c1 == Overlay(ctx, "slot", SafeV(<<>>))
        c2 == IF tok.b = "" THEN c1 ELSE Overlay(c1, "v", attr.v)
        component_context ==
            Overlay(c2, "attributes",
                    SafeV(IF tok.b = "" THEN <<>> ELSE FormatAttributes(attr.v)))
    IN  ProcessTemplate(ReadFile(Segments(p.path)), component_context,
                        attr.m, fuel - 1)))

RECURSIVE XComponentProcess(_, _, _, _, _)
XComponentProcess(t, iteration, ctx, m, fuel) ==
    LET i == FindKind(t, 1, {"xself"}) IN
    IF i = 0 \/ iteration >= MAX_COMPONENT_NESTING_ITERATIONS THEN Ok(t, m)
    ELSE Then(RenderXComponent(t[i], ctx, Touch(t[i], m), fuel), LAMBDA out, m1 :
              XComponentProcess(SubSeq(t, 1, i - 1) \o out \o SubSeq(t, i + 1, Len(t)),
                                iteration + 1, ctx, m1, fuel))

(* ---- CustomDirectiveHandler, with one registered directive ---- *)
\* engine.register_directive("echo", lambda args, ctx: args[0])
RegisteredDirectives == {"echo"}

\* _parse_args on one argument: a failed evaluation falls back to its text
ParseArgs(tok, ctx, m) ==
    LET e == EvalM(tok.b, ctx, m) IN
    [v |-> IF e.st = "ok" THEN e.v ELSE StrV(Text(Spell(tok.b))), m |-> e.m]

RECURSIVE CustomDirectiveProcess(_, _, _)
CustomDirectiveProcess(t, ctx, m) ==
    LET i == IF \E j \in 1..Len(t) : t[j].k = "cdir" /\ t[j].a \in RegisteredDirectives
             THEN CHOOSE j \in 1..Len(t) :
                     /\ t[j].k = "cdir" /\ t[j].a \in RegisteredDirectives
                     /\ \A h \in 1..(j - 1) :
                            ~(t[h].k = "cdir" /\ t[h].a \in RegisteredDirectives)
             ELSE 0
    IN  IF i = 0 THEN Ok(t, m)
        ELSE With(ParseArgs(t[i], ctx, Touch(t[i], m)), LAMBDA arg :
                  Emit(SubSeq(t, 1, i - 1)
                           \o (IF arg.v.t = "none" THEN <<>> ELSE StrOf(arg.v)),
                       CustomDirectiveProcess(SubSeq(t, i + 1, Len(t)), ctx, arg.m)))

(* ---- TemplateParser ---- *)
ProcessTemplate(t, ctx, m, fuel) ==
    IF fuel = 0 THEN Fail("RecursionError", FALSE, [m EXCEPT !.overflow = TRUE])
    ELSE Leave(
    Then(ProcessPush(t, Pass("push", Enter(m))),                          LAMBDA out1, m1 :
    Then(PrependProcess(out1, Pass("prepend", m1)),                       LAMBDA out2, m2 :
    Then(XComponentProcess(out2, 0, ctx, Pass("x_component", m2), fuel),  LAMBDA out3, m3 :
    Then(IncludeProcess(out3, ctx, Pass("include", m3), fuel),            LAMBDA out4, m4 :
    Then(CustomDirectiveProcess(out4, ctx, Pass("custom_directive", m4)), LAMBDA out5, m5 :
    Then(ControlProcess(out5, ctx, Pass("control", m5)),                  LAMBDA out6, m6 :
    Then(ProcessStack(out6, ctx, Pass("stack", m6), fuel),                LAMBDA out7, m7 :
         VariableProcess(out7, ctx, Pass("variables", m7))))))))))

(* ---- ExtendsHandler (block sections) ---- *)
NoSections == [n \in {} |-> <<>>]

\* _extract_sections: each @section ... @endsection block, up to the first
\* @endsection that follows it, goes to the dict and leaves the template
RECURSIVE ExtractSections(_, _, _)
ExtractSections(t, sections, remaining) ==
    LET i == FindKind(t, 1, {"section"})
        j == IF i = 0 THEN 0 ELSE FindKind(t, i + 1, {"endsection"})
    IN  IF i = 0 \/ j = 0
        THEN [sections |-> sections, remaining |-> remaining \o t]
        ELSE ExtractSections(SubSeq(t, j + 1, Len(t)),
                             Overlay(sections, t[i].a, StripWs(SubSeq(t, i + 1, j - 1))),
                             remaining \o SubSeq(t, 1, i - 1))

\* _replace_yields: the section of that name or the default, rendered by
\* process_template unless it is empty
RECURSIVE ReplaceYields(_, _, _, _, _)
ReplaceYields(t, sections, ctx, m, fuel) ==
    LET i == FindKind(t, 1, {"yield"}) IN
    IF i = 0 THEN Ok(t, m)
    ELSE With(IF t[i].a \in DOMAIN sections THEN sections[t[i].a]
              ELSE IF t[i].b = "" THEN <<>> ELSE Text(<<t[i].b>>), LAMBDA content :
         Then(IF content = <<>> THEN Ok(<<>>, m)
              ELSE ProcessTemplate(content, ctx, m, fuel), LAMBDA out, m1 :
              Emit(SubSeq(t, 1, i - 1) \o out,
                   ReplaceYields(SubSeq(t, i + 1, Len(t)), sections, ctx, m1, fuel))))

\* the child's sections, the text outside them appended to 'content'
ChildSections(x) ==
    IF StripWs(x.remaining) = <<>> THEN x.sections
    ELSE Overlay(x.sections, "content",
                 (IF "content" \in DOMAIN x.sections THEN x.sections["content"]
                  ELSE <<>>) \o <<C("\n")>> \o StripWs(x.remaining))

\* ExtendsHandler.process
ExtendsProcess(t, ctx, m0, fuel) ==
    LET i == FindKind(t, 1, {"extends"})
        m == Pass("extends", m0)
    IN
    IF i = 0
    THEN Then(ReplaceYields(t, NoSections, ctx, m, fuel), LAMBDA out, m1 :
              Ok(ExtractSections(out, NoSections, <<>>).remaining, m1))
    ELSE With(ResolveTemplatePath(<<>>, Spell(t[i].a)), LAMBDA parent_path :
         IF parent_path.st = "raised" THEN Fail(parent_path.err, FALSE, m)
         ELSE IF ~FileExists(parent_path.path)
         THEN Fail("TemplateNotFoundException", FALSE, m)
         ELSE ReplaceYields(
                ReadFile(parent_path.path),
                ChildSections(ExtractSections(
                    SelectSeq(t, LAMBDA tok : tok.k # "extends"), NoSections, <<>>)),
                ctx, m, fuel))

\* TemplateParser.parse
Parse(t, ctx, m) ==
    Then(ExtendsProcess(t, ctx, m, PyRecursionLimit), LAMBDA out, m1 :
         ProcessTemplate(out, ctx, m1, PyRecursionLimit))

(***************************************************************************)
(* What the engine is asked to render.                                     *)
(***************************************************************************)
Repeat(v, n) == [i \in 1..n |-> v]

LT == StrV(Text(<<"<">>))

\* an iterable of exactly max_loop_iterations items, and one item more
AtLimit   == ListV(Repeat(StrV(Text(<<"a">>)), max_loop_iterations))
OverLimit == ListV(Repeat(StrV(Text(<<"a">>)), max_loop_iterations + 1))

NoCtx == [n \in {} |-> NoneV]

Data ==
    [ n \in {"x", "y", "z", "v", "one", "two", "three", "flags"} |->
        CASE n = "x"     -> StrV(<<Raw("y")>>)          \* the text {!! y !!}
          [] n = "y"     -> LT
          [] n = "z"     -> StrV(<<Esc("y")>>)          \* the text {{ y }}
          [] n = "v"     -> StrV(Text(<<"&">>))
          [] n = "one"   -> ListV(<<StrV(<<Esc("y")>>)>>)
          [] n = "two"   -> AtLimit
          [] n = "three" -> OverLimit
          [] n = "flags" -> ListV(<<BoolV(FALSE), BoolV(TRUE)>>) ]

In(id, tpl, ctx) == [id |-> id, tpl |-> tpl, ctx |-> ctx]

InterpolationInputs ==
    { In("esc", <<Esc("y")>>, Data),
      In("esc_v", <<Esc("v")>>, [n \in {"v"} |-> StrV(Text(<<"U">>))]),
      In("raw", <<Raw("y")>>, Data),
      In("esc_of_raw_text", <<Esc("x")>>, Data),
      In("raw_of_esc_text", <<Raw("z")>>, Data),
      In("loop_of_esc_text", <<Foreach("i", "one"), Esc("i"), EndForeach>>, Data),
      In("undefined", <<C("u"), Esc("q")>>, Data),
      In("if_undefined", <<If("q"), C("a"), Else, C("b"), EndIf>>, NoCtx),
      In("echo", <<CDir("echo", "z")>>, Data) }

\* render_string of {{ s }} and of {!! s !!} with the context {s: s}
SelfCtx(s) == [n \in {"s"} |-> StrV(s)]

SelfInputs ==
    { In("self_esc_plain", <<Esc("s")>>, SelfCtx(Text(<<"a">>))),
      In("self_raw_plain", <<Raw("s")>>, SelfCtx(Text(<<"a">>))),
      In("self_esc_special", <<Esc("s")>>, SelfCtx(Text(<<"&", "<", ">", "\"", "'">>))),
      In("self_raw_special", <<Raw("s")>>, SelfCtx(Text(<<"&", "<", ">", "\"", "'">>))),
      In("self_esc_rawtext", <<Esc("s")>>, SelfCtx(<<Raw("q")>>)),
      In("self_raw_rawtext", <<Raw("s")>>, SelfCtx(<<Raw("q")>>)),
      In("self_esc_lt_rawtext", <<Esc("s")>>, SelfCtx(<<C("<"), Raw("s")>>)),
      In("self_esc_esctext", <<Esc("s")>>, SelfCtx(<<Esc("q")>>)),
      In("self_raw_esctext", <<Raw("s")>>, SelfCtx(<<Esc("q")>>)),
      In("self_esc_iftext", <<Esc("s")>>, SelfCtx(<<If("True"), C("x"), EndIf>>)),
      In("self_raw_iftext", <<Raw("s")>>, SelfCtx(<<If("True"), C("x"), EndIf>>)),
      In("self_esc_includetext", <<Esc("s")>>, SelfCtx(<<Include("1")>>)),
      In("self_raw_includetext", <<Raw("s")>>, SelfCtx(<<Include("1")>>)) }

SecurityInputs ==
    { In("sec_var", <<Esc("x.__class__")>>, Data),
      In("sec_if", <<If("x.__class__"), C("a"), EndIf>>, Data),
      In("sec_elseif", <<If("False"), C("a"), ElseIf("x.__class__"), C("b"),
                         Else, C("c"), EndIf>>, Data),
      In("sec_switch", <<Switch("x.__class__"), Case("y"), C("a"), Break,
                         Default, C("d"), EndSwitch>>, Data),
      In("sec_case", <<Switch("y"), Case("x.__class__"), C("a"), Break,
                       Case("y"), C("b"), Break, Default, C("d"), EndSwitch>>, Data),
      In("sec_foreach", <<Foreach("i", "x.__class__"), C("a"), EndForeach>>, Data),
      In("sec_for", <<For("i", "x.__class__"), C("a"), EndFor>>, Data),
      In("sec_includeIf", <<IncludeIf("1", "x.__class__")>>, Data),
      In("sec_xattr", <<XSelf("k", "x.__class__")>>, Data),
      In("sec_cdir", <<CDir("echo", "x.__class__")>>, Data),
      In("err_if", <<If("1/0"), C("a"), EndIf>>, Data),
      In("xattr", <<XSelf("k", "y")>>, Data) }

IncludeInputs ==
    { In("include_at_max", <<Include(ChainName(max_recursion_depth))>>, Data),
      In("include_over_max", <<Include(ChainName(max_recursion_depth + 1))>>, Data),
      In("includeIf_at_max", <<IncludeIf(ChainName(max_recursion_depth), "True")>>, Data),
      In("includeIf_over_max",
         <<IncludeIf(ChainName(max_recursion_depth + 1), "True")>>, Data),
      In("mixed_over_max", <<Include("i")>>, Data),
      In("include_self", <<Include("s")>>, Data),
      In("include_traversal", <<Include("../a")>>, Data),
      In("include_missing", <<Include("n")>>, Data),
      In("include_undefined", <<Include("1")>>, NoCtx),
      In("include_raw", <<Include("r")>>, Data) }

LoopInputs ==
    { In("foreach_at_limit", <<Foreach("i", "two"), Esc("i"), EndForeach>>, Data),
      In("foreach_over_limit", <<C("p"), Foreach("i", "three"), Esc("i"), EndForeach>>, Data),
      In("for_at_limit", <<For("i", "two"), Esc("i"), EndFor>>, Data),
      In("for_over_limit", <<C("p"), For("i", "three"), Esc("i"), EndFor>>, Data),
      In("nested_at_limit", <<Foreach("i", "two"), Foreach("j", "two"), C("n"),
                              EndForeach, EndForeach>>, Data),
      In("for_in_if_over_limit", <<Foreach("i", "two"), If("True"), For("j", "three"),
                                   C("n"), EndFor, EndIf, EndForeach>>, Data),
      In("break", <<Foreach("i", "flags"), If("i"), Break, EndIf, Esc("i"),
                    C(";"), EndForeach>>, Data),
      In("continue", <<For("i", "flags"), If("i"), Else, Continue, EndIf, Esc("i"),
                       C(";"), EndFor>>, Data) }

\* an interpolation in the body of a @for inside a taken @if branch inside
\* a @foreach body
ForInIf(e) == <<Foreach("i", "one"), If("True"), For("j", "two"), Esc(e), EndFor,
                Else, C("b"), EndIf, EndForeach>>

StrictInputs ==
    { In("undef_for_in_if", ForInIf("q"), Data),
      In("err_for_in_if", ForInIf("1/0"), Data),
      In("sec_for_in_if", ForInIf("x.__class__"), Data),
      In("undef_in_if", <<If("True"), C("a"), Raw("q"), Else, C("b"), EndIf>>, Data),
      In("err_in_foreach", <<Foreach("i", "two"), Esc("1/0"), EndForeach>>, Data) }

ExtendsInputs ==
    { In("extends_parent", <<Extends("l"), Section("content"), C("C"), EndSection>>, Data),
      In("extends_rest", <<Extends("l"), C("C")>>, Data),
      In("extends_var", <<Extends("l"), Section("content"), Esc("y"), EndSection>>, Data),
      In("extends_missing", <<Extends("n"), C("C")>>, Data),
      In("extends_grandparent", <<Extends("p"), Section("content"), C("C"), EndSection>>,
         Data),
      In("yield_default", <<C("a"), Yield("content", "d"), C("b"), Section("x"), C("S"),
                            EndSection>>, NoCtx) }

\* templates that refer back to themselves
SelfReferenceInputs ==
    { In("stack_self", <<Push("s"), C("a"), Stack("s"), EndPush, Stack("s")>>, NoCtx),
      In("component_self", <<XSelf("w", "")>>, NoCtx) }


\* @if(False) ... @endif| : a branch that is not selected
DeadBranch(body) == <<If("False")>> \o body \o <<EndIf, C("|")>>

DeadBranchInputs ==
    { In("dead_push", DeadBranch(<<Push("s"), C("a"), EndPush>>), Data),
      In("dead_prepend", DeadBranch(<<Prepend("s"), C("a"), EndPrepend>>), Data),
      In("dead_else_push", <<If("True"), Else, Push("s"), C("a"), EndPush, EndIf, C("|")>>,
         Data),
      In("dead_foreach", DeadBranch(<<Foreach("i", "three"), C("n"), EndForeach>>), Data),
      In("dead_for", DeadBranch(<<For("i", "three"), C("n"), EndFor>>), Data),
      In("dead_switch", DeadBranch(<<Switch("1/0"), Case("y"), C("a"), Break, EndSwitch>>),
         Data),
      In("dead_variable", DeadBranch(<<Esc("1/0")>>), Data),
      In("dead_if", DeadBranch(<<If("1/0"), C("a"), EndIf>>), Data) }


\* @switch(y) over the cases given, followed by "|"; y is "<", v is "&"
SwitchOf(cases) == <<Switch("y")>> \o cases \o <<EndSwitch, C("|")>>

SwitchInputs ==
    { In("sw_first", SwitchOf(<<Case("y"), C("a"), Break, Case("v"), C("b"), Break,
                                Default, C("d")>>), Data),
      In("sw_second", SwitchOf(<<Case("v"), C("b"), Break, Case("y"), C("a"), Break,
                                 Default, C("d")>>), Data),
      In("sw_two_match", SwitchOf(<<Case("y"), C("a"), Break, Case("y"), C("b"), Break,
                                    Default, C("d")>>), Data),
      In("sw_none_default", SwitchOf(<<Case("v"), C("b"), Break, Default, C("d")>>), Data),
      In("sw_none", SwitchOf(<<Case("v"), C("b"), Break, Case("x"), C("c"), Break>>), Data),
      In("sw_last", SwitchOf(<<Case("v"), C("b"), Break, Case("y"), C("a"), Break>>), Data),
      In("sw_only", SwitchOf(<<Case("y"), C("a"), Break>>), Data) }


\* An @if/@elseif/@else chain with a nested chain in branch pos; the nested
\* chain holds a third one in its first branch.
\*   @if(c1)a..@elseif(c2)b..@else c..@endif|
\*   .. = @if(n1)n@if(n2)p@elseif(n1)q@endif@elseif(n2)m@else k@endif
ChainCases ==
    [c1 : BOOLEAN, c2 : BOOLEAN, n1 : BOOLEAN, n2 : BOOLEAN,
     has_else : {TRUE}, pos : 1..3]
    \cup [c1 : BOOLEAN, c2 : BOOLEAN, n1 : BOOLEAN, n2 : BOOLEAN,
          has_else : {FALSE}, pos : 1..2]

Lit(b) == IF b THEN "True" ELSE "False"

ChainId(p) ==
    "chain_" \o Lit(p.c1) \o Lit(p.c2) \o Lit(p.n1) \o Lit(p.n2)
             \o (IF p.has_else THEN "_else_" ELSE "_") \o ToString(p.pos)

NestedChain(p) ==
    <<If(Lit(p.n1)), C("n"), If(Lit(p.n2)), C("p"), ElseIf(Lit(p.n1)), C("q"), EndIf,
      ElseIf(Lit(p.n2)), C("m"), Else, C("k"), EndIf>>

NestedAt(p, k) == IF p.pos = k THEN NestedChain(p) ELSE <<>>

ChainTemplate(p) ==
    <<If(Lit(p.c1)), C("a")>> \o NestedAt(p, 1)
      \o <<ElseIf(Lit(p.c2)), C("b")>> \o NestedAt(p, 2)
      \o (IF p.has_else THEN <<Else, C("c")>> \o NestedAt(p, 3) ELSE <<>>)
      \o <<EndIf, C("|")>>

ChainInputs == { In(ChainId(p), ChainTemplate(p), Data) : p \in ChainCases }

\* @if(c1)a@elseif(c2)e..@else b@endif| with failing conditions; u is in no
\* context
ConditionOf(c1, c2, body) ==
    <<If(c1), C("a"), ElseIf(c2), C("e")>> \o body \o <<Else, C("b"), EndIf, C("|")>>

\* blocks without their closing directive
UnbalancedInputs ==
    { In("unb_if", <<C("a"), If("True"), C("b"), C("|")>>, Data),
      In("unb_if_else", <<C("a"), If("False"), C("b"), Else, C("c"), C("|")>>, Data),
      In("unb_nested_if",
         <<If("True"), C("a"), If("True"), C("b"), EndIf, C("|")>>, Data),
      In("unb_foreach", <<C("a"), Foreach("i", "one"), C("b"), C("|")>>, Data),
      In("unb_nested_foreach",
         <<Foreach("i", "one"), C("a"), Foreach("j", "one"), C("b"), EndForeach,
           C("|")>>, Data) }

\* n times <x-k />, then "|"; components/k.html exists
Siblings(n) == [j \in 1..n |-> XSelf("k", "")] \o <<C("|")>>

SiblingInputs ==
    { In("x_one", Siblings(1), Data),
      In("x_at_limit", Siblings(MAX_COMPONENT_NESTING_ITERATIONS), Data),
      In("x_over_limit", Siblings(MAX_COMPONENT_NESTING_ITERATIONS + 1), Data) }

\* loops over flags = [False, True]; y is "<" in the enclosing context and
\* i is not bound there
ScopeInputs ==
    { In("scope_shadow", <<Foreach("y", "flags"), Esc("y"), C(";"), EndForeach,
                           Esc("y"), C("|")>>, Data),
      In("scope_noleak", <<Foreach("i", "flags"), Esc("i"), C(";"), EndForeach,
                           C("["), Esc("i"), C("]"), C("|")>>, Data),
      In("scope_for_shadow", <<For("y", "flags"), Esc("y"), C(";"), EndFor,
                               Esc("y"), C("|")>>, Data),
      In("scope_if", <<Foreach("y", "flags"), If("y"), C("t"), Else, C("f"), EndIf,
                       EndForeach, C("|")>>, Data),
      In("scope_switch", <<Foreach("y", "flags"), Switch("y"), Case("True"), C("t"),
                           Break, Case("False"), C("f"), Break, Default, C("d"),
                           EndSwitch, EndForeach, C("|")>>, Data),
      In("scope_switch_new", <<Foreach("i", "flags"), Switch("i"), Case("True"), C("t"),
                               Break, Case("False"), C("f"), Break, Default, C("d"),
                               EndSwitch, EndForeach, C("|")>>, Data),
      In("scope_for_in_foreach", <<Foreach("i", "flags"), For("j", "flags"), Esc("j"),
                                   EndFor, C(","), EndForeach, C("|")>>, Data) }

ConditionInputs ==
    { In("cond_if_undef", ConditionOf("u", "False", <<>>), Data),
      In("cond_elseif_undef", ConditionOf("False", "u", <<>>), Data),
      In("cond_if_err", ConditionOf("1/0", "True", <<>>), Data),
      In("cond_if_sec", ConditionOf("x.__class__", "True", <<>>), Data),
      In("cond_elseif_err", ConditionOf("False", "1/0", <<>>), Data),
      In("cond_elseif_sec", ConditionOf("False", "x.__class__", <<>>), Data),
      In("cond_elseif_body_err",
         ConditionOf("False", "True", <<If("1/0"), C("n"), EndIf>>), Data) }

StackInputs ==
    { In("push", <<Push("s"), C(" "), C("A"), Esc("y"), EndPush, C("p")>>, Data),
      In("prepend_then_raise", <<Prepend("s"), C("B"), EndPrepend,
                                 Esc("x.__class__")>>, Data),
      In("stack", <<C("["), Stack("s"), C("]")>>, Data) }

PushBlock(n, ch)    == <<Push(n), C(ch), EndPush>>
PrependBlock(n, ch) == <<Prepend(n), C(ch), EndPrepend>>

\* templates that are a sequence of @push / @prepend blocks and one @stack
OrderInputs ==
    { In("push2", PushBlock("s", "a") \o PushBlock("s", "b") \o <<Stack("s")>>, NoCtx),
      In("push3", PushBlock("s", "a") \o PushBlock("s", "b") \o PushBlock("s", "c")
                  \o <<Stack("s")>>, NoCtx),
      In("prepend2", PrependBlock("s", "a") \o PrependBlock("s", "b")
                     \o <<Stack("s")>>, NoCtx),
      In("stack_first", <<Stack("s")>> \o PushBlock("s", "a") \o PushBlock("s", "b"),
         NoCtx),
      In("mixed", PushBlock("s", "a") \o PrependBlock("s", "c") \o PushBlock("s", "b")
                  \o PrependBlock("s", "d") \o <<Stack("s")>>, NoCtx) }

Inputs == InterpolationInputs \cup SecurityInputs \cup IncludeInputs
          \cup LoopInputs \cup StackInputs \cup OrderInputs
          \cup SelfInputs \cup StrictInputs
          \cup ExtendsInputs \cup SelfReferenceInputs

\* the names render is called with
RenderNames == {"s", "r", "n", "../a", ChainName(max_recursion_depth)}

(***************************************************************************)
(* MemoryCache (blade/cache/memory.py).  The cache is a dict, kept here as  *)
(* the sequence of its entries in insertion order; an entry is             *)
(* [key, content, mtime, access_time].  The content of a file is named by  *)
(* the time of its last modification.                                      *)
(***************************************************************************)
CACHE_KEY_SEPARATOR == <<":">>

CachePaths == {<<"p">>, <<"p", "q">>, <<"r">>}

\* _get_context_hash of the contexts the cache is called with
ContextHashes == {<<"h">>}

\* the template files that are edited while the cache is in use
ModifiedPaths == {<<"p">>}

\* MemoryCache._make_cache_key
MakeCacheKey(template_path, context_hash) ==
    template_path \o CACHE_KEY_SEPARATOR \o context_hash

\* index of the entry with this key, 0 when `cache_key not in self.cache`
KeyIndex(c, cache_key) ==
    IF \E i \in 1..Len(c) : c[i].key = cache_key
    THEN CHOOSE i \in 1..Len(c) : c[i].key = cache_key
    ELSE 0

\* del self.cache[key]
Without(c, i) == SubSeq(c, 1, i - 1) \o SubSeq(c, i + 1, Len(c))

\* _get_file_mtime_cached under lru_cache: os.path.getmtime is called once
\* for a path and the value is then served from the memo
MemoAfter(memo, template_path) ==
    IF template_path \in DOMAIN memo THEN memo
    ELSE [q \in DOMAIN memo \cup {template_path} |->
            IF q = template_path THEN file_mtime[template_path] ELSE memo[q]]

GetFileMtime(memo, template_path) == MemoAfter(memo, template_path)[template_path]

\* MemoryCache._is_expired with `>=` for `>`
IsExpiredAtTtl(entry, ttl, t) ==
    IF ttl = 0 THEN FALSE ELSE (t - entry.access_time) >= ttl

\* MemoryCache._is_expired
IsExpired(entry, ttl, t) ==
    IF ttl = 0 THEN FALSE ELSE (t - entry.access_time) > ttl

\* min(self.cache.keys(), key=access_time): the first of the oldest entries
LruIndex(c) ==
    CHOOSE i \in 1..Len(c) :
        /\ \A j \in 1..Len(c) : c[i].access_time <= c[j].access_time
        /\ \A j \in 1..(i - 1) : c[j].access_time > c[i].access_time

\* MemoryCache._evict_lru that removes nothing
EvictNothing(c) == c

\* MemoryCache._evict_lru
EvictLru(c) == IF c = <<>> THEN c ELSE Without(c, LruIndex(c))

\* the last operation on the cache: what was asked and what came back
NoOp == [kind |-> "none", path |-> <<>>, key |-> <<>>, hit |-> FALSE,
         content |-> 0, age |-> 0, evicted |-> 0]

\* MemoryCache.get
MemoryGet(template_path, context_hash) ==
    LET cache_key == MakeCacheKey(template_path, context_hash)
        i == KeyIndex(cache, cache_key)
        miss == [NoOp EXCEPT !.kind = "get", !.path = template_path,
                             !.key = cache_key]
    IN  IF i = 0
        THEN /\ op' = miss
             /\ UNCHANGED <<cache, mtime_memo>>
        ELSE IF IsExpired(cache[i], cache_config.ttl, now)
        THEN /\ cache' = Without(cache, i)
             /\ op' = [miss EXCEPT !.age = now - cache[i].access_time]
             /\ UNCHANGED mtime_memo
        ELSE IF cache_config.track_mtime
                /\ GetFileMtime(mtime_memo, template_path) # cache[i].mtime
        THEN /\ cache' = Without(cache, i)
             /\ mtime_memo' = MemoAfter(mtime_memo, template_path)
             /\ op' = [miss EXCEPT !.age = now - cache[i].access_time]
        ELSE /\ cache' = [cache EXCEPT ![i].access_time = now]
             /\ mtime_memo' = IF cache_config.track_mtime
                               THEN MemoAfter(mtime_memo, template_path)
                               ELSE mtime_memo
             /\ op' = [miss EXCEPT !.hit = TRUE, !.content = cache[i].content,
                                   !.age = now - cache[i].access_time]

\* MemoryCache.store; the caller stores what it has just read from the file
MemoryStore(template_path, context_hash) ==
    LET cache_key == MakeCacheKey(template_path, context_hash)
        kept == IF Len(cache) >= cache_config.max_size THEN EvictLru(cache)
                ELSE cache
        mtime == IF cache_config.track_mtime
                 THEN GetFileMtime(mtime_memo, template_path) ELSE 0
        entry == [key |-> cache_key, content |-> file_mtime[template_path],
                  mtime |-> mtime, access_time |-> now]
        i == KeyIndex(kept, cache_key)
    IN  /\ cache' = IF i = 0 THEN Append(kept, entry) ELSE [kept EXCEPT ![i] = entry]
        /\ mtime_memo' = IF cache_config.track_mtime
                          THEN MemoAfter(mtime_memo, template_path) ELSE mtime_memo
        /\ op' = [NoOp EXCEPT !.kind = "store", !.path = template_path,
                             !.key = cache_key,
                             !.evicted = Len(cache) - Len(kept)]

\* MemoryCache.invalidate(template_path): every key that starts with the path
MemoryInvalidate(template_path) ==
    /\ cache' = SelectSeq(cache, LAMBDA e : ~StartsWith(e.key, template_path))
    /\ op' = [NoOp EXCEPT !.kind = "invalidate", !.path = template_path]
    /\ UNCHANGED mtime_memo

\* MemoryCache.invalidate()
MemoryClear ==
    /\ cache' = <<>>
    /\ op' = [NoOp EXCEPT !.kind = "invalidate"]
    /\ UNCHANGED mtime_memo

NoFiles == [q \in {} |-> 0]

NoStores ==
    /\ compiled_cache = NoFiles
    /\ cache_dir = [index |-> FALSE, files |-> NoFiles]

NoCache ==
    /\ NoStores
    /\ cache = <<>>
    /\ cache_config = [max_size |-> 1, ttl |-> 0, track_mtime |-> FALSE]
    /\ now = 0
    /\ file_mtime = [q \in CachePaths |-> 0]
    /\ mtime_memo = [q \in {} |-> 0]
    /\ op = NoOp

(***************************************************************************)
(* BladeEngine.render_string and BladeEngine.render on one engine.         *)
(***************************************************************************)
NoStacks == [n \in StackNames |-> <<>>]

NoRender ==
    [call |-> "none", id |-> "", tpl |-> <<>>, ctx |-> NoCtx, err |-> "",
     out |-> <<>>, sec |-> FALSE, deep |-> FALSE, loopx |-> FALSE,
     reint |-> FALSE, entered |-> 0, peak |-> 0, stacks_before |-> NoStacks,
     globals |-> NoCtx, varsec |-> FALSE, varfail |-> FALSE, overflow |-> FALSE,
     log |-> <<>>]

RECURSIVE SumLens(_, _)
SumLens(f, S) ==
    IF S = {} THEN 0
    ELSE LET n == CHOOSE n \in S : TRUE IN Len(f[n]) + SumLens(f, S \ {n})

StackItems == SumLens(stacks, StackNames)

\* `except TemplateException: raise / except Exception: raise TemplateException`
TemplateExceptions ==
    { "TemplateException", "TemplateNotFoundException", "TemplateSyntaxError",
      "DirectiveError", "SecurityError" }

Reraise(err) ==
    IF err = "" \/ err \in TemplateExceptions THEN err ELSE "TemplateException"

StartOfRender ==
    [stacks |-> stacks, depth |-> recursion_depth, sec |-> FALSE, deep |-> FALSE,
     loopx |-> FALSE, reint |-> FALSE, entered |-> 0, peak |-> recursion_depth,
     varsec |-> FALSE, varfail |-> FALSE, overflow |-> FALSE,
     level |-> 0, log |-> <<>>]

Finish(call, id, tpl, ctx, r) ==
    /\ stacks' = r.m.stacks
    /\ recursion_depth' = r.m.depth
    /\ last' = [call |-> call, id |-> id, tpl |-> tpl, ctx |-> ctx,
                err |-> Reraise(r.err), out |-> r.out,
                sec |-> r.m.sec, deep |-> r.m.deep, loopx |-> r.m.loopx,
                reint |-> r.m.reint, entered |-> r.m.entered, peak |-> r.m.peak,
                stacks_before |-> stacks, globals |-> globals,
                varsec |-> r.m.varsec, varfail |-> r.m.varfail,
                overflow |-> r.m.overflow, log |-> r.m.log]
    /\ UNCHANGED <<strict_mode, globals, pathVars, compVars, storeVars, cacheVars>>

\* prepare_context(context or {}): the values of the model hold no dict, so
\* the context is copied as it is
PrepareContext(context) == context

\* BladeEngine._merge_context: the globals, updated with the context
MergeContext(context) ==
    [n \in DOMAIN globals \cup DOMAIN context |->
        IF n \in DOMAIN context THEN context[n] ELSE globals[n]]

\* BladeEngine.render_string
RenderString ==
    /\ StackItems < MaxStackItems
    /\ \E in \in Inputs :
          Finish("render_string", in.id, in.tpl, in.ctx,
                 Parse(in.tpl, PrepareContext(in.ctx), StartOfRender))

\* BladeEngine.render on an engine built with cache_enabled=False: the path is
\* resolved, the file is read and parsed
Render ==
    /\ StackItems < MaxStackItems
    /\ \E name \in RenderNames, ctx \in {NoCtx, Data} :
          LET template_path == ResolveTemplatePath(<<>>, Spell(name)) IN
          Finish("render", name, <<>>, ctx,
                 IF template_path.st = "raised"
                 THEN Fail(template_path.err, FALSE, StartOfRender)
                 ELSE IF ~FileExists(template_path.path)
                 THEN Fail("TemplateNotFoundException", FALSE, StartOfRender)
                 ELSE Parse(ReadFile(template_path.path), PrepareContext(ctx),
                            StartOfRender))

\* BladeEngine.add_global (add_globals calls it once per pair): a name that
\* is no identifier or starts with an underscore raises ValueError
GlobalNames == {"v", "_v"}

GlobalValue == StrV(Text(<<"G">>))

AddGlobal ==
    /\ \E name \in GlobalNames :
          IF name = "_v" THEN globals' = globals
          ELSE globals' = Overlay(globals, name, GlobalValue)
    /\ UNCHANGED <<strict_mode, stacks, recursion_depth, last, pathVars, compVars, storeVars,
                   cacheVars>>

Init ==
    /\ strict_mode \in BOOLEAN
    /\ stacks = NoStacks
    /\ recursion_depth = 0
    /\ globals = NoCtx
    /\ last = NoRender
    /\ NoCache
    /\ template_name = <<>>
    /\ symlinks = <<>>
    /\ resolved = Pending
    /\ io_calls = 0
    /\ component_name = <<>>
    /\ component_file = Pending

Next == RenderString \/ Render \/ AddGlobal

Spec == Init /\ [][Next]_vars

(***************************************************************************)
(* SafeEvaluator.  An expression is the list of its AST nodes in the order *)
(* of ast.walk; an identifier is the sequence of its characters.           *)
(***************************************************************************)
EVAL_ALLOWED_NODES ==
    {"Expression", "Name", "Load", "Constant", "Attribute", "Call", "BinOp", "Compare"}

EXEC_ALLOWED_NODES == EVAL_ALLOWED_NODES \cup {"Module", "Expr", "Assign", "Store"}

Identifiers ==
    { <<"x">>, <<"_", "x">>, <<"_", "_", "x">>, <<"_", "_", "x", "_", "_">>,
      <<"x", "_">> }

\* the attributes of the object every bound name holds
ObjectAttributes == { <<"x">>, <<"_", "x">>, <<"_", "_", "x", "_", "_">> }

Node(node, id) == [node |-> node, id |-> id]

NameExpr(id) == <<Node("Name", id), Node("Load", <<>>)>>

AttributeExpr(base, attr) ==
    <<Node("Attribute", attr), Node("Name", base), Node("Load", <<>>)>>

LambdaExpr == <<Node("Lambda", <<>>), Node("Constant", <<>>)>>

Expressions ==
    { NameExpr(id) : id \in Identifiers }
      \cup { AttributeExpr(base, attr) : base, attr \in Identifiers }
      \cup { LambdaExpr }

\* target = value
AssignStatement(target, value) ==
    <<Node("Module", <<>>), Node("Assign", <<>>), Node("Name", target),
      Node("Store", <<>>)>> \o value

Statements ==
    { AssignStatement(target, NameExpr(<<"x">>)) : target \in Identifiers }
      \cup { AssignStatement(<<"x">>, value) : value \in Expressions }

IsDunder(id) == StartsWith(id, <<"_", "_">>) /\ EndsWith(id, <<"_", "_">>)

\* the checks of one subnode of ast.walk
ForbiddenNode(subnode, allowed) ==
    \/ subnode.node \notin allowed
    \/ /\ subnode.node = "Attribute"
       /\ IsDunder(subnode.id) \/ StartsWith(subnode.id, <<"_">>)
    \/ /\ subnode.node = "Name"
       /\ IsDunder(subnode.id)

\* eval / exec of the compiled node: a name that is read must be bound, an
\* attribute must exist; any exception becomes DirectiveError
Runs(nodes, context) ==
    \A k \in 1..Len(nodes) :
        /\ (nodes[k].node = "Name" /\ (k = Len(nodes) \/ nodes[k + 1].node # "Store"))
              => nodes[k].id \in context
        /\ nodes[k].node = "Attribute" => nodes[k].id \in ObjectAttributes

Validated(nodes, allowed, context) ==
    IF \E k \in 1..Len(nodes) : ForbiddenNode(nodes[k], allowed) THEN "SecurityError"
    ELSE IF ~Runs(nodes, context) THEN "DirectiveError"
    ELSE ""

safe_eval(expr, context) ==
    Validated(<<Node("Expression", <<>>)>> \o expr, EVAL_ALLOWED_NODES, context)

safe_exec(code_str, context) == Validated(code_str, EXEC_ALLOWED_NODES, context)

\* the names bound in the context: none, or all of them
EvalContexts == { {}, Identifiers }

Evaluated(call, nodes, context, err) ==
    /\ last' = [NoRender EXCEPT !.call = call, !.tpl = nodes,
                                !.ctx = [id \in context |-> NoneV], !.err = err]
    /\ UNCHANGED <<strict_mode, stacks, recursion_depth, globals, pathVars, compVars, storeVars,
                   cacheVars>>

SafeEval ==
    \E expr \in Expressions, context \in EvalContexts :
        Evaluated("safe_eval", expr, context, safe_eval(expr, context))

SafeExec ==
    \E code_str \in Statements, context \in EvalContexts :
        Evaluated("safe_exec", code_str, context, safe_exec(code_str, context))

NextEval == SafeEval \/ SafeExec

SpecEval == Init /\ [][NextEval]_vars

\* BladeEngine.render_string of the templates with control blocks
RenderChain ==
    /\ StackItems < MaxStackItems
    /\ \E in \in ChainInputs \cup ConditionInputs \cup UnbalancedInputs
                  \cup SiblingInputs \cup ScopeInputs \cup DeadBranchInputs
                  \cup SwitchInputs :
          Finish("render_string", in.id, in.tpl, in.ctx,
                 Parse(in.tpl, PrepareContext(in.ctx), StartOfRender))

NextChain == RenderChain \/ AddGlobal

SpecChain == Init /\ [][NextChain]_vars

(***************************************************************************)
(* _resolve_template_path called on one name, and render's use of it.      *)
(***************************************************************************)
InitPath ==
    /\ template_name \in TemplateNames
    /\ symlinks \in SymlinkConfigs
    /\ resolved = Pending
    /\ io_calls = 0
    /\ strict_mode = FALSE
    /\ stacks = NoStacks
    /\ recursion_depth = 0
    /\ globals = NoCtx
    /\ last = NoRender
    /\ NoCache
    /\ component_name = <<>>
    /\ component_file = Pending

\* render, line 171: template_path = self._resolve_template_path(template_name)
RenderResolve ==
    /\ resolved.st = "pending"
    /\ resolved' = ResolveTemplatePath(symlinks, template_name)
    /\ UNCHANGED <<template_name, symlinks, io_calls, compVars, storeVars, engineVars, cacheVars>>

\* render, lines 173-213: cache.get, os.path.exists, open
RenderLoad ==
    /\ resolved.st = "returned"
    /\ io_calls = 0
    /\ io_calls' = 3
    /\ UNCHANGED <<template_name, symlinks, resolved, compVars, storeVars, engineVars, cacheVars>>

NextPath == RenderResolve \/ RenderLoad

SpecPath == InitPath /\ [][NextPath]_vars

(***************************************************************************)
(* _resolve_component_path called on one x-component tag name.             *)
(***************************************************************************)
InitComp ==
    /\ component_name \in ComponentNames
    /\ component_file = Pending
    /\ template_name = <<>>
    /\ symlinks = <<>>
    /\ resolved = Pending
    /\ io_calls = 0
    /\ strict_mode = FALSE
    /\ stacks = NoStacks
    /\ recursion_depth = 0
    /\ globals = NoCtx
    /\ last = NoRender
    /\ NoCache

ResolveComponent ==
    /\ component_file.st = "pending"
    /\ \E exists \in BOOLEAN :
          component_file' = ResolveComponentPath(component_name, COMPONENT_SUBDIR, exists)
    /\ UNCHANGED <<component_name, pathVars, storeVars, engineVars, cacheVars>>

NextComp == ResolveComponent

SpecComp == InitComp /\ [][NextComp]_vars

(***************************************************************************)
(* One MemoryCache under store, get, invalidate, file modifications and    *)
(* the passing of time.  BladeEngine.__init__ refuses cache_max_size <= 0  *)
(* and cache_ttl < 0.                                                      *)
(***************************************************************************)
InitCache ==
    /\ NoStores
    /\ cache = <<>>
    /\ cache_config \in [max_size : 1..MaxCacheSize, ttl : 0..MaxTtl,
                          track_mtime : BOOLEAN]
    /\ now = 0
    /\ file_mtime = [q \in CachePaths |-> 0]
    /\ mtime_memo = [q \in {} |-> 0]
    /\ op = NoOp
    /\ template_name = <<>>
    /\ symlinks = <<>>
    /\ resolved = Pending
    /\ io_calls = 0
    /\ component_name = <<>>
    /\ component_file = Pending
    /\ strict_mode = FALSE
    /\ stacks = NoStacks
    /\ recursion_depth = 0
    /\ globals = NoCtx
    /\ last = NoRender

CacheFrame == UNCHANGED <<cache_config, pathVars, compVars, storeVars, engineVars>>

CacheGet ==
    /\ \E template_path \in CachePaths, h \in ContextHashes :
          MemoryGet(template_path, h)
    /\ UNCHANGED <<now, file_mtime>>
    /\ CacheFrame

CacheStore ==
    /\ \E template_path \in CachePaths, h \in ContextHashes :
          MemoryStore(template_path, h)
    /\ UNCHANGED <<now, file_mtime>>
    /\ CacheFrame

CacheInvalidate ==
    /\ \/ \E template_path \in CachePaths : MemoryInvalidate(template_path)
       \/ MemoryClear
    /\ UNCHANGED <<now, file_mtime>>
    /\ CacheFrame

\* the template file is written: its modification time becomes the time of
\* the write
ModifyFile ==
    /\ \E template_path \in ModifiedPaths :
          /\ file_mtime[template_path] < now
          /\ file_mtime' = [file_mtime EXCEPT ![template_path] = now]
    /\ op' = [NoOp EXCEPT !.kind = "modify"]
    /\ UNCHANGED <<cache, now, mtime_memo>>
    /\ CacheFrame

Tick ==
    /\ now < MaxTime
    /\ now' = now + 1
    /\ op' = [NoOp EXCEPT !.kind = "tick"]
    /\ UNCHANGED <<cache, file_mtime, mtime_memo>>
    /\ CacheFrame

NextCache == CacheGet \/ CacheStore \/ CacheInvalidate \/ ModifyFile \/ Tick

SpecCache == InitCache /\ [][NextCache]_vars

(***************************************************************************)
(* DiskCache on one directory.  cache_dir.index tells whether index.json   *)
(* exists; cache_dir.files maps the path of a cached template (its key is  *)
(* the sha256 of the path) to [mtime, st_mtime, st_atime]: the template's  *)
(* modification time recorded in the entry and the times of the file.      *)
(***************************************************************************)
\* len(list(self.cache_dir.glob("*.json")))
GlobCount(dir) == Cardinality(DOMAIN dir.files) + (IF dir.index THEN 1 ELSE 0)

Unlinked(dir, q) ==
    [dir EXCEPT !.files = [f \in DOMAIN dir.files \ {q} |-> dir.files[f]]]

\* the files min(cache_files, key=st_atime) can return: the oldest ones
Oldest(dir) ==
    { q \in DOMAIN dir.files :
        \A f \in DOMAIN dir.files : dir.files[q].st_atime <= dir.files[f].st_atime }

\* DiskCache._evict_lru with victim as the file that min() returns
DiskEvictLru(dir, victim) ==
    IF GlobCount(dir) <= 1 THEN dir
    ELSE IF DOMAIN dir.files = {} THEN dir
    ELSE Unlinked(dir, victim)

\* DiskCache._is_expired
DiskIsExpired(file, ttl, t) ==
    IF ttl = 0 THEN FALSE ELSE (t - file.st_mtime) > ttl

\* DiskCache.get
DiskGet(template_path) ==
    IF template_path \notin DOMAIN cache_dir.files
    THEN /\ op' = [NoOp EXCEPT !.kind = "disk_get", !.path = template_path]
         /\ UNCHANGED <<cache_dir, mtime_memo>>
    ELSE IF DiskIsExpired(cache_dir.files[template_path], cache_config.ttl, now)
    THEN /\ cache_dir' = Unlinked(cache_dir, template_path)
         /\ op' = [NoOp EXCEPT !.kind = "disk_get", !.path = template_path]
         /\ UNCHANGED mtime_memo
    ELSE IF /\ cache_config.track_mtime
            /\ GetFileMtime(mtime_memo, template_path)
                 # cache_dir.files[template_path].mtime
    THEN /\ cache_dir' = Unlinked(cache_dir, template_path)
         /\ mtime_memo' = MemoAfter(mtime_memo, template_path)
         /\ op' = [NoOp EXCEPT !.kind = "disk_get", !.path = template_path]
    ELSE /\ cache_dir' = [cache_dir EXCEPT !.files[template_path].st_mtime = now,
                                           !.files[template_path].st_atime = now]
         /\ mtime_memo' = IF cache_config.track_mtime
                          THEN MemoAfter(mtime_memo, template_path) ELSE mtime_memo
         /\ op' = [NoOp EXCEPT !.kind = "disk_get", !.path = template_path,
                               !.hit = TRUE]

\* DiskCache.store; writing an existing file leaves its access time
DiskStore(template_path) ==
    \E victim \in Oldest(cache_dir) \cup {template_path} :
       LET dir == IF GlobCount(cache_dir) >= cache_config.max_size + 1
                  THEN DiskEvictLru(cache_dir, victim) ELSE cache_dir
           mtime == IF cache_config.track_mtime
                    THEN GetFileMtime(mtime_memo, template_path) ELSE 0
           entry == [mtime |-> mtime, st_mtime |-> now,
                     st_atime |-> IF template_path \in DOMAIN dir.files
                                  THEN dir.files[template_path].st_atime ELSE now]
       IN  /\ victim \in Oldest(cache_dir) \/ Oldest(cache_dir) = {}
           /\ cache_dir' =
                 [dir EXCEPT !.files = [f \in DOMAIN dir.files \cup {template_path} |->
                                          IF f = template_path THEN entry
                                          ELSE dir.files[f]]]
           /\ mtime_memo' = IF cache_config.track_mtime
                            THEN MemoAfter(mtime_memo, template_path) ELSE mtime_memo
           /\ op' = [NoOp EXCEPT !.kind = "disk_store", !.path = template_path,
                                 !.evicted = Cardinality(DOMAIN cache_dir.files)
                                               - Cardinality(DOMAIN dir.files)]

\* DiskCache.invalidate, with a path or without: every entry file is removed
DiskInvalidate ==
    /\ cache_dir' = [cache_dir EXCEPT !.files = NoFiles]
    /\ op' = [NoOp EXCEPT !.kind = "disk_invalidate"]
    /\ UNCHANGED mtime_memo

\* DiskCache.__init__ on a directory with or without index.json
InitDisk ==
    /\ compiled_cache = NoFiles
    /\ cache_dir \in [index : BOOLEAN, files : {NoFiles}]
    /\ cache = <<>>
    /\ cache_config \in [max_size : 1..MaxCacheSize, ttl : 0..MaxTtl,
                          track_mtime : BOOLEAN]
    /\ now = 0
    /\ file_mtime = [q \in CachePaths |-> 0]
    /\ mtime_memo = [q \in {} |-> 0]
    /\ op = NoOp
    /\ template_name = <<>>
    /\ symlinks = <<>>
    /\ resolved = Pending
    /\ io_calls = 0
    /\ component_name = <<>>
    /\ component_file = Pending
    /\ strict_mode = FALSE
    /\ stacks = NoStacks
    /\ recursion_depth = 0
    /\ globals = NoCtx
    /\ last = NoRender

DiskFrame ==
    UNCHANGED <<cache, cache_config, now, file_mtime, compiled_cache, pathVars,
                compVars, engineVars>>

DiskCacheGet == (\E template_path \in CachePaths : DiskGet(template_path)) /\ DiskFrame

DiskCacheStore ==
    (\E template_path \in CachePaths : DiskStore(template_path)) /\ DiskFrame

DiskCacheInvalidate == DiskInvalidate /\ DiskFrame

NextDisk ==
    DiskCacheGet \/ DiskCacheStore \/ DiskCacheInvalidate \/ ModifyFile \/ Tick

SpecDisk == InitDisk /\ [][NextDisk]_vars

(***************************************************************************)
(* TemplateCompiler.tokenize and its cache.  A source is a sequence of     *)
(* characters, comments {{-- c --}}, interpolations and @endif directives. *)
(***************************************************************************)
\* the length of the text that one element of a source stands for
Width(x) == IF x.k = "c" THEN 1 ELSE IF x.k = "comment" THEN 11 ELSE 6

Token(type, content, line, col) ==
    [type |-> type, content |-> content, line |-> line, col |-> col]

Newlines(text) == Cardinality({i \in 1..Len(text) : text[i] = "\n"})

\* len(text.split('\n')[-1])
LastLineLen(text) ==
    Len(text) - (IF Newlines(text) = 0 THEN 0
                 ELSE CHOOSE i \in 1..Len(text) :
                        /\ text[i] = "\n"
                        /\ \A j \in (i + 1)..Len(text) : text[j] # "\n")

\* the line and column after a piece of text
Advance(text, pos) ==
    [line |-> pos.line + Newlines(text),
     col  |-> IF Newlines(text) > 0 THEN LastLineLen(text) + 1
              ELSE pos.col + Len(text)]

\* tokens.append(Token(TokenType.TEXT, text, line, col)) for a text before a
\* match or at the end
WithText(r, text) ==
    IF text = <<>> THEN r
    ELSE [r EXCEPT !.tokens = Append(@, Token("text", text, r.pos.line, r.pos.col)),
                   !.pos = Advance(text, r.pos)]

\* one match of the combined pattern: group(1) is the group of the comment
\* pattern, None unless the match is a comment
Matched(r, x) ==
    IF x.k = "comment"
    THEN [r EXCEPT !.tokens = Append(@, Token("comment", <<"{{-- c --}}">>,
                                              r.pos.line, r.pos.col)),
                   !.pos.col = @ + Width(x)]
    ELSE IF x.k \in {"esc", "raw"}
    THEN [r EXCEPT !.err = "AttributeError"]
    ELSE [r EXCEPT !.tokens = Append(@, Token("directive", <<"None:">>,
                                              r.pos.line, r.pos.col)),
                   !.pos.col = @ + Width(x)]

RECURSIVE Scan(_, _, _, _)
Scan(template, i, text, r) ==
    IF r.err # "" THEN r
    ELSE IF i > Len(template) THEN WithText(r, text)
    ELSE IF template[i].k = "c"
    THEN Scan(template, i + 1, Append(text, template[i].a), r)
    ELSE Scan(template, i + 1, <<>>, Matched(WithText(r, text), template[i]))

\* sha256 of the source: distinct sources have distinct hashes
get_template_hash(template) == template

Sources ==
    { <<>>, <<C("a")>>, <<C("b")>>, <<C("a"), C("b")>>,
      <<C("a"), Comment, C("b")>>, <<C("a"), C("\n"), C("b"), EndIf>>,
      <<Esc("y")>>, <<C("a"), Raw("y")>> }

Tokenize ==
    /\ \E template \in Sources :
         LET template_hash == get_template_hash(template)
             r == Scan(template, 1, <<>>,
                       [err |-> "", tokens |-> <<>>, pos |-> [line |-> 1, col |-> 1]])
         IN  IF template_hash \in DOMAIN compiled_cache
             THEN /\ op' = [NoOp EXCEPT !.kind = "tokenize", !.key = template_hash,
                                        !.hit = TRUE,
                                        !.path = compiled_cache[template_hash]]
                  /\ UNCHANGED compiled_cache
             ELSE IF r.err # ""
             THEN /\ op' = [NoOp EXCEPT !.kind = r.err, !.key = template_hash]
                  /\ UNCHANGED compiled_cache
             ELSE /\ compiled_cache' =
                        [h \in DOMAIN compiled_cache \cup {template_hash} |->
                            IF h = template_hash THEN r.tokens ELSE compiled_cache[h]]
                  /\ op' = [NoOp EXCEPT !.kind = "tokenize", !.key = template_hash,
                                        !.path = r.tokens]
    /\ UNCHANGED <<cache, cache_config, now, file_mtime, mtime_memo, cache_dir,
                   pathVars, compVars, engineVars>>

ClearCache ==
    /\ compiled_cache' = NoFiles
    /\ op' = [NoOp EXCEPT !.kind = "clear_cache"]
    /\ UNCHANGED <<cache, cache_config, now, file_mtime, mtime_memo, cache_dir,
                   pathVars, compVars, engineVars>>

NextCompiler == Tokenize \/ ClearCache

SpecCompiler == InitCache /\ [][NextCompiler]_vars

(***************************************************************************)
(* Properties.                                                             *)
(***************************************************************************)
Rendered == last.call # "none"

\* C1: within one render, text that an interpolation produced from a context
\* value is final: no later pass of that render evaluates or otherwise
\* interprets a token of that text again.
C1_InterpolatedTextIsFinal == Rendered => ~last.reint

\* C2: a SecurityError raised by the evaluator at any evaluation site reaches
\* the caller of render as a SecurityError; it is not swallowed, replaced by
\* a fallback value or converted to another kind of error.
C2_SecurityErrorPropagates == (Rendered /\ last.sec) => last.err = "SecurityError"

HasDotDotSegment(name) ==
    \E i \in 1..Len(Split(name, "/")) : Split(name, "/")[i] = DOTDOT

\* the path _resolve_template_path hands to Path.resolve() for a name
Candidate(name) ==
    LET norm == LStrip(LStrip(NormPath(name), "/"), "\\")
        full == IF HasValidExtension(norm) THEN norm ELSE norm \o DEFAULT_FILE_EXTENSION
    IN  ResolveFrom(symlinks, PathResolve(symlinks, TemplateDir), Segments(full))

C4_ComponentPathUnderComponents ==
    (component_file.st # "pending" /\ ValidComponentName(component_name))
        => Descendant(ComponentRoot, Segments(NormPath(component_file.path)))

\* C5: _resolve_template_path raises SecurityError for every absolute name and
\* for every name that holds a '..' path segment at any position, before any
\* file is read or any cache consulted.
C5_DotDotAndAbsoluteRejected ==
    (resolved.st # "pending"
       /\ (\/ IsAbs(template_name)
           \/ StartsWith(template_name, <<"\\">>)
           \/ HasDotDotSegment(template_name)))
        => (resolved = Raised("SecurityError") /\ io_calls = 0)

\* C6: when a chain of nested includes becomes deeper than
\* max_recursion_depth the render fails with a SecurityError, whether the
\* chain goes through @include, @includeIf or both; a chain of exactly
\* max_recursion_depth includes renders normally.
C6_DepthExceededIsSecurityError ==
    /\ (Rendered /\ last.deep) => last.err = "SecurityError"
    /\ (Rendered /\ last.id \in {"include_at_max", "includeIf_at_max"})
          => (last.err = "" /\ last.peak = max_recursion_depth)

\* C7: the recursion depth counter is back at 0 whenever render or
\* render_string returns or raises, after any sequence of renders on the same
\* engine: every include that was entered has been left, on every exit path.
C7_DepthCounterBalanced == recursion_depth = 0

\* C7 witness: a second or later render entered includes and raised from
\* inside one of them.
C7_Witness ==
    /\ Rendered
    /\ last.entered >= 2
    /\ last.err # ""
    /\ last.stacks_before # NoStacks
    /\ recursion_depth = 0

\* C8: a loop whose iterable yields more than max_loop_iterations items
\* raises SecurityError and nothing is returned; an iterable of exactly
\* max_loop_iterations items is rendered completely, also in a nested loop.
C8_LoopLimitIsSecurityError ==
    /\ (Rendered /\ last.loopx) => (last.err = "SecurityError" /\ last.out = <<>>)
    /\ (Rendered /\ last.id \in {"foreach_at_limit", "for_at_limit"})
          => (last.err = "" /\ Len(last.out) = max_loop_iterations)
    /\ (Rendered /\ last.id = "nested_at_limit")
          => (last.err = "" /\ Len(last.out) = max_loop_iterations * max_loop_iterations)

\* C9: @break and @continue in a loop body act on the loop: the text of the
\* directive never appears in the output, @break ends the loop (nothing of
\* the rest of the iteration or of later iterations is emitted) and no
\* BreakLoop or ContinueLoop signal escapes the loop handler.
C9_BreakAndContinueAct ==
    /\ Rendered => \A i \in 1..Len(last.out) : last.out[i].k \notin {"break", "continue"}
    /\ (Rendered /\ last.id = "break")
          => last.out = Mark(Text(<<"F", "a", "l", "s", "e">>)) \o <<C(";")>>
    /\ Rendered => last.err \notin {"BreakLoop", "ContinueLoop"}

\* C10: the stack store is empty at the start of every render and
\* render_string call, also when an earlier render on the engine raised.
C10_StoreEmptyAtStart == Rendered => last.stacks_before = NoStacks

\* the bodies of the blocks opened by `open` in a template of blocks, in the
\* order of the template
RECURSIVE BlockBodies(_, _)
BlockBodies(tpl, open) ==
    IF tpl = <<>> THEN <<>>
    ELSE IF Head(tpl).k = open THEN <<tpl[2].a>> \o BlockBodies(Tail(tpl), open)
    ELSE BlockBodies(Tail(tpl), open)

RECURSIVE WithNewlines(_)
WithNewlines(chars) ==
    IF Len(chars) <= 1 THEN chars
    ELSE <<Head(chars), "\n">> \o WithNewlines(Tail(chars))

Reversed(q) == [i \in 1..Len(q) |-> q[Len(q) + 1 - i]]

Chars(out) == [i \in 1..Len(out) |-> out[i].a]

\* C11: in a render that starts from an empty stack store, @stack(n) emits
\* the bodies pushed to n in the order of their @push blocks, joined by
\* newlines, after the bodies of the @prepend blocks in the reverse of their
\* order: push a, push b gives a\nb and prepend a, prepend b gives b\na.
C11_StackEmitsInOrder ==
    (Rendered /\ last.id \in {in.id : in \in OrderInputs}
        /\ last.stacks_before = NoStacks)
      => /\ last.err = ""
         /\ \A i \in 1..Len(last.out) : last.out[i].k = "c"
         /\ Chars(last.out) = WithNewlines(Reversed(BlockBodies(last.tpl, "prepend"))
                                            \o BlockBodies(last.tpl, "push"))

\* C11 witness: pushes and prepends to one name were emitted by @stack in a
\* render that started from an empty store.
C11_Witness ==
    /\ Rendered /\ last.id = "mixed" /\ last.stacks_before = NoStacks
    /\ Chars(last.out) = <<"d", "\n", "c", "\n", "a", "\n", "b">>

\* the context a render call should hand to the template: the engine's
\* globals at the time of the call under the user's context
SeenBy(call) ==
    [n \in DOMAIN call.globals \cup DOMAIN call.ctx |->
        IF n \in DOMAIN call.ctx THEN call.ctx[n] ELSE call.globals[n]]

OutEndsWith(out, chars) ==
    /\ Len(out) >= Len(chars)
    /\ \A i \in 1..Len(chars) : out[Len(out) - Len(chars) + i].a = chars[i]

\* C12: a global registered with add_global before a render or render_string
\* call is visible to the template as a context variable, and a key of the
\* user context with the same name takes precedence: a template that ends
\* with {{ v }} ends with the escaped text of v in globals-under-context.
C12_GlobalsVisible ==
    (/\ Rendered /\ "v" \in DOMAIN last.globals
     /\ \/ last.call = "render_string" /\ last.id \in {"include_undefined", "esc_v"}
        \/ last.call = "render" /\ last.id = ChainName(max_recursion_depth))
      => /\ last.err = ""
         /\ OutEndsWith(last.out, Chars(EscapeHtml(StrOf(SeenBy(last)["v"]))))

(***************************************************************************)
(* Properties of the cache.  A cache operation is the step that leaves its *)
(* record in op; the cache before the step is the unprimed one.            *)
(***************************************************************************)
Entries(c) == {c[i] : i \in 1..Len(c)}

\* the step is a get that found an entry under its key
GetOfPresent == op'.kind = "get" /\ KeyIndex(cache, op'.key) # 0

FoundEntry == cache[KeyIndex(cache, op'.key)]

Removed == KeyIndex(cache', op'.key) = 0

\* C13: with track_mtime on, a get on an entry whose stored mtime differs
\* from the file's modification time at that moment is a miss and removes
\* the entry; a hit therefore never returns a source older than the file.
C13_ModifiedFileIsMiss ==
    [][(GetOfPresent /\ cache_config.track_mtime)
         => /\ file_mtime[op'.path] # FoundEntry.mtime => ~op'.hit /\ Removed
            /\ op'.hit => op'.content = file_mtime[op'.path]]_vars

\* C14: a store into a cache that holds max_size entries first removes an
\* entry whose access_time is the oldest and touches no other entry, and the
\* cache never holds more than max_size entries.
C14_LruEviction ==
    [][/\ Len(cache') <= cache_config.max_size
       /\ (op'.kind = "store" /\ Len(cache) = cache_config.max_size)
            => \E e \in Entries(cache) :
                  /\ \A f \in Entries(cache) : e.access_time <= f.access_time
                  /\ {f \in Entries(cache') : f.key # op'.key}
                       = {f \in Entries(cache) \ {e} : f.key # op'.key}
                  /\ \E f \in Entries(cache') :
                        f.key = op'.key /\ f.access_time = now]_vars

C14_Witness ==
    /\ op.kind = "store" /\ op.evicted = 1
    /\ cache_config.max_size = 2 /\ Len(cache) = 2
    /\ cache[1].access_time < cache[2].access_time
    /\ cache[1].access_time > 0

\* C15: with ttl = 0 no get misses because of the entry's age; with ttl > 0
\* a get on an entry older than ttl is a miss and removes it, a get on an
\* entry of age at most ttl does not expire it, and a hit sets the entry's
\* access_time to now.
C15_Ttl ==
    [][GetOfPresent
         => /\ (cache_config.ttl > 0 /\ now - FoundEntry.access_time > cache_config.ttl)
                 => ~op'.hit /\ Removed
            /\ (cache_config.ttl = 0 \/ now - FoundEntry.access_time <= cache_config.ttl)
                 => \/ op'.hit
                    \/ cache_config.track_mtime
                         /\ file_mtime[op'.path] # FoundEntry.mtime
            /\ op'.hit
                 => /\ ~Removed
                    /\ cache'[KeyIndex(cache', op'.key)].access_time = now]_vars

\* a hit on an entry whose age is exactly ttl
C15_Witness ==
    /\ op.kind = "get" /\ op.hit
    /\ cache_config.ttl > 0 /\ op.age = cache_config.ttl
    /\ cache[KeyIndex(cache, op.key)].access_time = now

\* the text of a rendered output, whichever step wrote it
Unmarked(out) == [i \in 1..Len(out) |-> [out[i] EXCEPT !.f = FALSE]]

\* s with & < > " ' replaced by their entities, character by character
RECURSIVE Entities(_)
Entities(s) ==
    IF s = <<>> THEN <<>>
    ELSE (CASE Head(s).k = "c" /\ Head(s).a = "&" -> Text(<<"&", "a", "m", "p", ";">>)
            [] Head(s).k = "c" /\ Head(s).a = "<" -> Text(<<"&", "l", "t", ";">>)
            [] Head(s).k = "c" /\ Head(s).a = ">" -> Text(<<"&", "g", "t", ";">>)
            [] Head(s).k = "c" /\ Head(s).a = "\"" -> Text(<<"&", "q", "u", "o", "t", ";">>)
            [] Head(s).k = "c" /\ Head(s).a = "'" -> Text(<<"&", "#", "x", "2", "7", ";">>)
            [] Head(s).k \in QuotedKinds -> <<[Head(s) EXCEPT !.k = "dead"]>>
            [] OTHER -> <<Head(s)>>)
         \o Entities(Tail(s))

\* C16: render_string of {{ s }} with the context {s: s} is s with & < > " '
\* replaced by their entities, and render_string of {!! s !!} is s itself,
\* also when s holds {{ }}, {!! !!} or @ sequences.
C16_EscapedAndRawOfItself ==
    (Rendered /\ last.call = "render_string" /\ last.id \in {in.id : in \in SelfInputs})
      => /\ last.err = ""
         /\ Unmarked(last.out) =
               IF last.tpl = <<Esc("s")>> THEN Entities(last.ctx["s"].s)
               ELSE last.ctx["s"].s

\* C17: a SecurityError raised by an interpolation reaches the caller of
\* render as a SecurityError in both modes; another evaluation failure of an
\* interpolation makes render raise when strict_mode is on, and is rendered
\* as the empty string, with no error, when it is off.
C17_InterpolationFailures ==
    Rendered
      => /\ last.varsec => last.err = "SecurityError"
         /\ (last.varfail /\ strict_mode) => last.err # ""
         /\ (last.varfail /\ ~strict_mode /\ ~last.sec /\ ~last.loopx /\ ~last.deep)
               => last.err = ""

\* C18: inheritance is transitive. A child that extends p.html, which itself
\* extends g.html, renders as g.html with p's section in its yield and the
\* child's section in p's yield, and no rendered output holds an @extends
\* directive as text.
C18_ExtendsIsTransitive ==
    (Rendered /\ last.call = "render_string" /\ last.id \in {in.id : in \in ExtendsInputs})
      => /\ \A i \in 1..Len(last.out) : last.out[i].k # "extends"
         /\ last.id = "extends_grandparent"
               => /\ last.err = ""
                  /\ Unmarked(last.out) = Text(<<"G", "(", "P", "[", "C", "]", ")">>)

\* C19: a render ends within the configured bounds: its nested
\* process_template calls stay below what the interpreter allows, so that no
\* render is ended by the interpreter's RecursionError, also when a @stack
\* body, an include or a component template refers back to itself.
C19_EndsWithinConfiguredBounds == Rendered => ~last.overflow

(***************************************************************************)
(* The order of the passes.                                                *)
(***************************************************************************)
PassOrder == <<"push", "prepend", "x_component", "include", "custom_directive",
               "control", "stack", "variables">>

ControlOrder == <<"misc", "switch", "loops", "conditionals">>

ComesNext(order, a, b) ==
    \E i \in 1..(Len(order) - 1) : order[i] = a /\ order[i + 1] = b

\* the names of the passes started at one level, in the order of their start
PassesAt(log, lvl) ==
    LET at == SelectSeq(log, LAMBDA e : e.lvl = lvl)
    IN  [i \in 1..Len(at) |-> at[i].pass]

\* a call begins with its first pass, and a pass is followed by the next pass
\* of its call, or by the first pass of a later call at that level
InOrder(passes) ==
    /\ passes # <<>> => passes[1] \in {PassOrder[1], ControlOrder[1]}
    /\ \A i \in 1..(Len(passes) - 1) :
          \/ ComesNext(PassOrder, passes[i], passes[i + 1])
          \/ ComesNext(ControlOrder, passes[i], passes[i + 1])
          \/ passes[i + 1] \in {PassOrder[1], ControlOrder[1]}

Levels(log) == {log[i].lvl : i \in 1..Len(log)}

\* C20: process_template starts its passes in the order push, prepend,
\* x-components, includes, custom directives, control structures, stacks,
\* variables, and ControlStructureHandler.process in the order misc, switch,
\* loops, conditionals; a render that returns has run all eight passes of
\* the call made by parse, each one once the one before has returned; and
\* @extends resolution runs once, before every pass.
C20_FixedPassOrder ==
    (Rendered /\ last.log # <<>>)
      => /\ last.log[1] = [lvl |-> 0, pass |-> "extends"]
         /\ \A i \in 2..Len(last.log) : last.log[i].pass # "extends" /\ last.log[i].lvl > 0
         /\ \A lvl \in Levels(last.log) \ {0} : InOrder(PassesAt(last.log, lvl))
         /\ last.err = ""
              => LET top == PassesAt(last.log, 1) IN
                 /\ Len(top) >= Len(PassOrder)
                 /\ SubSeq(top, Len(top) - Len(PassOrder) + 1, Len(top)) = PassOrder
                 /\ \A i \in 1..Len(top) :
                       top[i] = PassOrder[((i - 1) % Len(PassOrder)) + 1]

\* a render that returned, with an included template rendered inside it
C20_Witness ==
    /\ Rendered /\ last.err = ""
    /\ \E i \in 1..Len(last.log) : last.log[i] = [lvl |-> 2, pass |-> "variables"]
    /\ \E i \in 1..Len(last.log) : last.log[i] = [lvl |-> 3, pass |-> "conditionals"]

\* C21: a branch that is not selected is never processed: the render of a
\* template whose only directives are inside such a branch raises nothing,
\* leaves the stack store as it was and emits only the text after the @endif.
C21_UnselectedBranchIsInert ==
    (Rendered /\ last.call = "render_string"
              /\ last.id \in {in.id : in \in DeadBranchInputs})
      => /\ last.err = ""
         /\ stacks = last.stacks_before
         /\ Chars(last.out) = <<"|">>

\* the body the switch of the input is to emit, followed by the "|"
SwitchExpected(id) ==
    CASE id \in {"sw_first", "sw_second", "sw_two_match", "sw_last", "sw_only"}
           -> <<"a", "|">>
      [] id = "sw_none_default" -> <<"d", "|">>
      [] OTHER -> <<"|">>

\* C22: @switch emits the body of the first @case equal to the discriminant,
\* wherever that case stands (the last @case of a switch without @default
\* included), without the @break; the @default body if no case is equal and
\* nothing if there is no @default either; never more than one body.
C22_SwitchEmitsFirstEqualCase ==
    (Rendered /\ last.call = "render_string"
              /\ last.id \in {in.id : in \in SwitchInputs})
      => /\ last.err = ""
         /\ Chars(last.out) = SwitchExpected(last.id)

\* what the chain of case p is to emit: the body of the one selected branch,
\* with the nested chain reduced in the same way, then the "|"
NestedExpected(p) ==
    IF p.n1 THEN <<"n", IF p.n2 THEN "p" ELSE "q">>
    ELSE IF p.n2 THEN <<"m">> ELSE <<"k">>

Selected(p) == IF p.c1 THEN 1 ELSE IF p.c2 THEN 2 ELSE IF p.has_else THEN 3 ELSE 0

ChainExpected(p) ==
    LET k == Selected(p) IN
    (IF k = 0 THEN <<>>
     ELSE <<(<<"a", "b", "c">>)[k]>> \o (IF p.pos = k THEN NestedExpected(p) ELSE <<>>))
    \o <<"|">>

C24_ConditionErrors ==
    (Rendered /\ last.call = "render_string")
      => /\ last.id \in {"cond_if_undef", "cond_elseif_undef"}
              => last.err = "" /\ Chars(last.out) = <<"b", "|">>
         /\ last.id \in {"cond_if_err", "cond_if_sec", "cond_elseif_err", "cond_elseif_sec"}
              => last.err = "TemplateSyntaxError"
         /\ last.id = "cond_elseif_body_err" => last.err # ""

\* C25: a template with an @if that has no matching @endif, or a @foreach that
\* has no matching @endforeach, makes the render raise a syntax error; the
\* unmatched directive is never passed through to the output.
C25_UnbalancedBlocksRaise ==
    (Rendered /\ last.call = "render_string"
              /\ last.id \in {in.id : in \in UnbalancedInputs})
      => /\ last.err = "TemplateSyntaxError"
         /\ \A i \in 1..Len(last.out) : last.out[i].k \notin {"if", "foreach"}

\* the expression holds a name or an attribute that starts with "_"
HasPrivateIdentifier(nodes) ==
    \E k \in 1..Len(nodes) :
        nodes[k].node \in {"Name", "Attribute"} /\ StartsWith(nodes[k].id, <<"_">>)

\* C26: safe_eval and safe_exec raise SecurityError for every expression that
\* holds a name or an attribute whose identifier starts with "_", with one
\* underscore or two, whether or not the name is bound in the context.
C26_UnderscoreIdentifiersRejected ==
    (last.call \in {"safe_eval", "safe_exec"} /\ HasPrivateIdentifier(last.tpl))
      => last.err = "SecurityError"

\* C27: when every referenced component exists, no x-component tag is left
\* after the x-component pass, for any number of tags in the text (more than
\* 20 included), so the output of the render holds no <x- construct.
C27_NoComponentTagRemains ==
    (Rendered /\ last.call = "render_string"
              /\ last.id \in {in.id : in \in SiblingInputs})
      => /\ last.err = ""
         /\ \A i \in 1..Len(last.out) : last.out[i].k # "xself"

FalseTrue == <<"F", "a", "l", "s", "e", ";", "T", "r", "u", "e", ";">>

\* what the loop of the input is to emit when the body sees the loop variable
\* and the text after the loop sees the enclosing context
ScopeExpected(id) ==
    CASE id \in {"scope_shadow", "scope_for_shadow"}
           -> FalseTrue \o <<"&", "l", "t", ";", "|">>
      [] id = "scope_noleak" -> FalseTrue \o <<"[", "]", "|">>
      [] id = "scope_for_in_foreach"
           -> <<"F", "a", "l", "s", "e", "T", "r", "u", "e", ",",
                "F", "a", "l", "s", "e", "T", "r", "u", "e", ",", "|">>
      [] OTHER -> <<"f", "t", "|">>

\* C28: in each iteration the loop body sees the loop variable bound to the
\* current item, shadowing an outer variable of the same name; after the loop
\* the enclosing context is what it was: the loop variable is not bound and
\* an outer variable of the same name has its value.
C28_LoopVariableScope ==
    (Rendered /\ last.call = "render_string" /\ ~strict_mode
              /\ last.id \in {in.id : in \in ScopeInputs})
      => /\ last.err = ""
         /\ Chars(last.out) = ScopeExpected(last.id)

\* the number of token streams the compiled-token cache is held to
MaxCompiled == 3

\* C29: after any sequence of tokenize calls the number of cached token
\* streams never exceeds the maximum size of the compiled-token cache.
C29_CompiledCacheIsBounded ==
    Cardinality(DOMAIN compiled_cache) <= MaxCompiled

\* C30: after any sequence of store, get and invalidate the number of entry
\* files in the cache directory, the index file not counted, never exceeds
\* max_size, whether or not an index file exists.
C30_DiskCacheIsBounded ==
    Cardinality(DOMAIN cache_dir.files) <= cache_config.max_size

=============================================================================
